---- MODULE Spec2Model ----
(***************************************************************************)
(* Verification model of the tipsy-elite cocktail machine control core.    *)
(*                                                                         *)
(* Two programs live in the repository and never run together:             *)
(*   "tipsy" : src/src/ (tb6612_controller.PumpManager, threads,           *)
(*             cocktail_manager.CocktailMaker, cleaning_system)            *)
(*   "kivy"  : src/cocktail_machine/ (hardware/pumps.PumpManager, asyncio) *)
(* The variable `program` says which one a behaviour is about.             *)
(***************************************************************************)
EXTENDS Integers, Sequences, FiniteSets, TLC

VARIABLES
    program,   \* "tipsy" or "kivy": one client at a time; "port": tipsy, one client,
               \* write by write; "threads", "maker": tipsy, several threads
    hw,        \* tipsy: tb6612_controller.pump_manager, its controllers and the GPIO pins
    last,      \* tipsy: the last call of the sequential client: op, pump, volume, result,
               \* and for emergency_stop whether a pump was running when it was called;
               \* port: also the writes the call has still to make and whether a
               \* primitive raised in it
    kw,        \* kivy: hardware/pumps.PumpManager, its pumps and their TB6612Controller
    ktask,     \* kivy: the asyncio tasks and where each is suspended
    th,        \* threads: each thread's call in progress, its position and its locals
    glock,     \* threads: holder of PumpManager._global_lock, 0 when free
    latched,   \* threads: an emergency_stop has returned and no reset_emergency_stop
               \* has been called since
    mk         \* threads: cocktail_manager.CocktailMaker (status, order, plock) and
               \* cleaning_system.CleaningSystem

vars == <<program, hw, last, kw, ktask, th, glock, latched, mk>>

(***************************************************************************)
(* Bounds of the model.                                                    *)
(***************************************************************************)
\* controllers modelled (TB6612_CONTROLLERS lists six, all wired alike)
NumControllers == 2
\* cap on the sum of the volume_dispensed counters (ml), enforced in the guards
MaxVolume == 2
\* number of pumps.py pumps modelled (DEFAULT_GPIO_CONFIG lists ten)
NumKPumps == 2

(***************************************************************************)
(* Program constants.                                                      *)
(***************************************************************************)
MinDutyCycle == 30
MaxDutyCycle == 100
\* longest admissible pour, in seconds
MaxPourTime == 60
\* default speed of pumps.py Pump.pour_volume / TB6612Controller.start
KDefaultSpeed == 80

(***************************************************************************)
(* Topology (hardware_config.py).                                          *)
(***************************************************************************)
Controllers == 0 .. (NumControllers - 1)
Channels == {"A", "B"}
Pumps == 1 .. (2 * NumControllers)
\* PUMP_CONFIGS: pump 2k+1 is channel A of controller k, pump 2k+2 its channel B
PumpController(p) == (p - 1) \div 2
PumpChannel(p) == IF p % 2 = 1 THEN "A" ELSE "B"
\* pump ids a client may pass: 0 is bound to no pump; 1 and 2 are the two
\* channels of controller 0, 3 is channel A of controller 1
PumpIds == {0, 1, 2, 3}
\* speed_percent arguments a client may pass
SpeedInputs == {10, 100}
\* volume_ml arguments a client may pass: 0 is invalid, 168 ml is what a pump
\* of 2.8 ml/s delivers in max_pour_time, 200 ml takes longer than
\* max_pour_time on every pump
VolumeInputs == {0, 1, 168, 200}
\* flow_rate_ml_per_second of pumps 1..12, in tenths of ml/s so that the test
\* of pour_volume, volume / rate > max_pour_time, stays in the integers
FlowRates == <<28, 28, 28, 28, 25, 25, 32, 32, 20, 25, 18, 15>>
FlowRateTenths(p) == FlowRates[p]
\* pour_time = volume_ml / pump.effective_flow_rate is a quotient of doubles:
\* the double nearest to 2.8 lies below 2.8, and 168 / 2.8 evaluates to
\* 60.00000000000001; at the other rates the quotient at the limit is 60.0
QuotientRoundsUp(p, v) ==
    FlowRateTenths(p) = 28 /\ v * 10 = MaxPourTime * FlowRateTenths(p)
\* the test pour_time > max_pour_time of pour_volume
PourTimeTooLong(p, v) ==
    v * 10 > MaxPourTime * FlowRateTenths(p) \/ QuotientRoundsUp(p, v)

Max2(a, b) == IF a > b THEN a ELSE b
Min2(a, b) == IF a < b THEN a ELSE b

(***************************************************************************)
(* tipsy: TB6612Controller and GPIO (tb6612_controller.py).                *)
(* A world w is the record                                                 *)
(*   flag      PumpManager._emergency_stop                                 *)
(*   pm_init   PumpManager.is_initialized                                  *)
(*   c_init    TB6612Controller.is_initialized, per controller             *)
(*   standby   TB6612Controller.standby_active, per controller             *)
(*   pwm       the controller's pwm_a / pwm_b objects exist                *)
(*   pins      level of <<in1, in2>> per controller and channel            *)
(*   duty      duty on the PWM pin of channel A (12) and of channel B (13),*)
(*             shared by all controllers                                   *)
(*   stby      level of the STBY pin (26), shared by all controllers       *)
(*   motor     PumpStatus per controller and channel                       *)
(***************************************************************************)
PumpStatus0 ==
    [is_running |-> FALSE, direction |-> "forward", speed_percent |-> 0,
     volume_dispensed |-> 0, last_started |-> FALSE]

World0 ==
    [flag |-> FALSE, pm_init |-> FALSE,
     c_init |-> [c \in Controllers |-> FALSE],
     standby |-> [c \in Controllers |-> TRUE],
     pwm |-> [c \in Controllers |-> FALSE],
     pins |-> [c \in Controllers |-> [ch \in Channels |-> <<0, 0>>]],
     duty |-> [ch \in Channels |-> 0],
     stby |-> 0,
     motor |-> [c \in Controllers |-> [ch \in Channels |-> PumpStatus0]]]

\* TB6612Controller.enable
Enable(w, c) == [w EXCEPT !.stby = 1, !.standby[c] = FALSE]

\* one channel of _stop_all_motors: pins low, duty 0 when the PWM object exists
StopChannel(w, c, ch) ==
    [w EXCEPT !.pins[c][ch] = <<0, 0>>,
              !.duty[ch] = IF w.pwm[c] THEN 0 ELSE @,
              !.motor[c][ch].is_running = FALSE,
              !.motor[c][ch].direction = "stopped",
              !.motor[c][ch].speed_percent = 0]

\* a _stop_all_motors that forgets channel B
StopAllMotors_OnlyA(w, c) == StopChannel(w, c, "A")

\* TB6612Controller._stop_all_motors / stop_all
StopAllMotors(w, c) == StopChannel(StopChannel(w, c, "A"), c, "B")

\* TB6612Controller.disable
Disable(w, c) == [StopAllMotors(w, c) EXCEPT !.stby = 0, !.standby[c] = TRUE]

\* an initialize that leaves the chip in standby
ControllerInitialize_NoEnable(w, c) ==
    IF w.c_init[c] THEN w
    ELSE [w EXCEPT !.pins[c] = [ch \in Channels |-> <<0, 0>>],
                   !.stby = 0, !.pwm[c] = TRUE,
                   !.duty = [ch \in Channels |-> 0],
                   !.c_init[c] = TRUE]

\* TB6612Controller.initialize
ControllerInitialize(w, c) ==
    IF w.c_init[c] THEN w
    ELSE [Enable([w EXCEPT !.pins[c] = [ch \in Channels |-> <<0, 0>>],
                           !.stby = 0,
                           !.pwm[c] = TRUE,
                           !.duty = [ch \in Channels |-> 0]], c)
            EXCEPT !.c_init[c] = TRUE]

\* a cleanup that runs again on a controller that is not initialized
ControllerCleanup_Unguarded(w, c) ==
    [Disable(StopAllMotors(w, c), c) EXCEPT !.c_init[c] = FALSE]

\* TB6612Controller.cleanup
ControllerCleanup(w, c) ==
    IF w.c_init[c]
    THEN [Disable(StopAllMotors(w, c), c) EXCEPT !.c_init[c] = FALSE]
    ELSE w

\* a _set_motor_a that marks the motor running for any valid direction
SetMotor_RunningAtZero(w, c, ch, speed, direction) ==
    LET sp == IF direction \in {"forward", "reverse"} THEN speed ELSE 0
        pn == IF direction = "forward" THEN <<1, 0>>
              ELSE IF direction = "reverse" THEN <<0, 1>> ELSE <<0, 0>>
    IN [w EXCEPT !.pins[c][ch] = pn,
                 !.duty[ch] = IF w.pwm[c] THEN sp ELSE @,
                 !.motor[c][ch].is_running = (direction \in {"forward", "reverse"}),
                 !.motor[c][ch].direction = IF sp > 0 THEN direction ELSE "stopped",
                 !.motor[c][ch].speed_percent = sp]

\* TB6612Controller._set_motor_a / _set_motor_b
SetMotor(w, c, ch, speed, direction) ==
    LET sp == IF direction \in {"forward", "reverse"} THEN speed ELSE 0
        pn == IF direction = "forward" THEN <<1, 0>>
              ELSE IF direction = "reverse" THEN <<0, 1>> ELSE <<0, 0>>
    IN [w EXCEPT !.pins[c][ch] = pn,
                 !.duty[ch] = IF w.pwm[c] THEN sp ELSE @,
                 !.motor[c][ch].is_running = (sp > 0),
                 !.motor[c][ch].direction = IF sp > 0 THEN direction ELSE "stopped",
                 !.motor[c][ch].speed_percent = sp]

\* a clamping without the minimum duty cycle
ClampSpeed_NoMinimum(speed) == Max2(0, Min2(100, speed))

\* the clamping of set_motor_speed
ClampSpeed(speed) ==
    LET s == Max2(0, Min2(100, speed))
    IN IF s < MinDutyCycle /\ s > 0 THEN MinDutyCycle ELSE s

\* TB6612Controller.set_motor_speed: its result, and the world it leaves
SetMotorSpeedOk(w, c) == w.c_init[c]
SetMotorSpeed(w, c, ch, speed, direction) ==
    IF ~w.c_init[c] THEN w
    ELSE SetMotor(IF w.standby[c] THEN Enable(w, c) ELSE w,
                  c, ch, ClampSpeed(speed), direction)

(***************************************************************************)
(* tipsy: PumpManager (tb6612_controller.py), each call taken as a whole.  *)
(***************************************************************************)
RECURSIVE FoldControllers(_, _, _)
\* apply Op(w, c) for c = from .. NumControllers-1, in dictionary order
FoldControllers(Op(_, _), w, from) ==
    IF from >= NumControllers THEN w
    ELSE FoldControllers(Op, Op(w, from), from + 1)

\* PumpManager.initialize
ManagerInitialize(w) ==
    IF w.pm_init THEN w
    ELSE [FoldControllers(ControllerInitialize, w, 0) EXCEPT !.pm_init = TRUE]

\* a cleanup that also clears the emergency-stop flag
ManagerCleanup_ClearsFlag(w) ==
    [FoldControllers(ControllerCleanup, w, 0) EXCEPT !.pm_init = FALSE, !.flag = FALSE]

\* PumpManager.cleanup
ManagerCleanup(w) ==
    [FoldControllers(ControllerCleanup, w, 0) EXCEPT !.pm_init = FALSE]

\* the speed start_pump hands to the controller (calibration_factor is 1.0)
AdjustedSpeed(speed) == Max2(MinDutyCycle, Min2(MaxDutyCycle, speed))

\* a start_pump that does not look at the emergency-stop flag
StartPumpOk_IgnoresFlag(w, p) == p \in Pumps /\ SetMotorSpeedOk(w, PumpController(p))

\* PumpManager.start_pump
StartPumpOk(w, p) ==
    ~w.flag /\ p \in Pumps /\ SetMotorSpeedOk(w, PumpController(p))
StartPump(w, p, speed) ==
    IF ~StartPumpOk(w, p) THEN w
    ELSE [SetMotorSpeed(w, PumpController(p), PumpChannel(p),
                        AdjustedSpeed(speed), "forward")
            EXCEPT !.motor[PumpController(p)][PumpChannel(p)].last_started = TRUE]

\* a stop_pump that stops both motors of the pump's controller
StopPump_WholeController(w, p) ==
    IF ~(p \in Pumps /\ SetMotorSpeedOk(w, PumpController(p))) THEN w
    ELSE [StopAllMotors(w, PumpController(p))
            EXCEPT !.motor[PumpController(p)][PumpChannel(p)].last_started = FALSE]

\* PumpManager.stop_pump
StopPumpOk(w, p) == p \in Pumps /\ SetMotorSpeedOk(w, PumpController(p))
StopPump(w, p) ==
    IF ~StopPumpOk(w, p) THEN w
    ELSE [SetMotorSpeed(w, PumpController(p), PumpChannel(p), 0, "stopped")
            EXCEPT !.motor[PumpController(p)][PumpChannel(p)].last_started = FALSE]

\* a bookkeeping that credits both channels of the pump's controller
CreditVolume_BothChannels(w, p, v) ==
    [w EXCEPT !.motor[PumpController(p)] =
                 [ch \in Channels |-> [@[ch] EXCEPT !.volume_dispensed = @ + v]]]

\* the volume bookkeeping that ends pour_volume
CreditVolume(w, p, v) ==
    [w EXCEPT !.motor[PumpController(p)][PumpChannel(p)].volume_dispensed = @ + v]

\* PumpManager.pour_volume run from start to end with no other call in between
PourVolumeOk(w, p, v, speed) ==
    /\ p \in Pumps
    /\ \/ v <= 0
       \/ /\ ~PourTimeTooLong(p, v)
          /\ StartPumpOk(w, p)
          /\ StopPumpOk(StartPump(w, p, speed), p)
PourVolume(w, p, v, speed) ==
    IF p \notin Pumps \/ v <= 0 \/ PourTimeTooLong(p, v) THEN w
    ELSE IF ~StartPumpOk(w, p) THEN w
    ELSE CreditVolume(StopPump(StartPump(w, p, speed), p), p, v)

\* PumpManager.emergency_stop
EmergencyStop(w) == FoldControllers(StopAllMotors, [w EXCEPT !.flag = TRUE], 0)

\* PumpManager.reset_emergency_stop
ResetEmergencyStop(w) == [w EXCEPT !.flag = FALSE]

VolumeOf(w, p) == w.motor[PumpController(p)][PumpChannel(p)].volume_dispensed
RECURSIVE SumVolume(_, _)
SumVolume(w, p) == IF p = 0 THEN 0 ELSE VolumeOf(w, p) + SumVolume(w, p - 1)
\* all that the pumps have dispensed
TotalVolume(w) == SumVolume(w, 2 * NumControllers)
IsRunning(w, p) == w.motor[PumpController(p)][PumpChannel(p)].is_running

(***************************************************************************)
(* kivy: hardware/pumps.py.  A world k is the record                       *)
(*   flag    PumpManager.emergency_stop_flag                               *)
(*   mlock   holder of PumpManager._lock (an asyncio.Lock), 0 when free    *)
(*   pump    per pump: status, current_operation present (op), holder of   *)
(*           Pump._lock (plock), and its TB6612Controller: is_running,     *)
(*           pins <<in1, in2>>, pwm object exists, pwm running, duty       *)
(***************************************************************************)
KPumps == 1 .. NumKPumps
\* ingredient arguments: 0 names an ingredient no pump is bound to
KIngredients == {0} \cup KPumps
KTasks == {1, 2}
\* volume_ml arguments: 0 is no volume, 200 ml takes 80 s at 2.5 ml/s
KVolumeInputs == {0, 1, 200}
\* flow_rate_ml_s of pump_1 .. pump_6 in tenths of ml/s
KFlowRateTenths == 25

KPump0 ==
    [status |-> "idle", op |-> FALSE, plock |-> 0, is_running |-> FALSE,
     pins |-> <<0, 0>>, pwm |-> FALSE, pwm_running |-> FALSE, duty |-> 0]

\* PumpConfig.calibration_factor 1.0, in thousandths
KScale == 1000
\* PumpManager.__init__ with no configuration file: load_config takes
\* DEFAULT_GPIO_CONFIG and calls save_config() while self.pumps is still
\* empty, so the file it writes lists no pump; _initialize_pumps then builds
\* every pump with the default calibration_factor.  pumps is the set of keys
\* of self.pumps, file the 'pumps' object of the configuration file
KConfig0 ==
    [pumps |-> KPumps,
     calibration |-> [p \in KPumps |-> KScale],
     file |-> [pumps |-> {}, calibration |-> [p \in KPumps |-> KScale]],
     n |-> 0]

KWorld0 ==
    [flag |-> FALSE, mlock |-> 0, pump |-> [p \in KPumps |-> KPump0], cfg |-> KConfig0]

\* TB6612Controller.stop (pumps.py)
KControllerStop(k, p) ==
    [k EXCEPT !.pump[p].pwm_running = FALSE,
              !.pump[p].pins = <<0, 0>>,
              !.pump[p].is_running = FALSE]

\* TB6612Controller.start (pumps.py), direction "forward"
KControllerStart(k, p, speed) ==
    LET k1 == IF k.pump[p].is_running THEN KControllerStop(k, p) ELSE k
    IN [k1 EXCEPT !.pump[p].pwm = TRUE,
                  !.pump[p].pins = <<1, 0>>,
                  !.pump[p].duty = Max2(0, Min2(100, speed)),
                  !.pump[p].pwm_running = TRUE,
                  !.pump[p].is_running = TRUE]

\* Pump.stop_immediately
KStopImmediately(k, p) ==
    [KControllerStop(k, p) EXCEPT !.pump[p].status = "idle", !.pump[p].op = FALSE]

RECURSIVE KFoldPumps(_, _, _)
KFoldPumps(Op(_, _), k, from) ==
    IF from > NumKPumps THEN k ELSE KFoldPumps(Op, Op(k, from), from + 1)

\* PumpManager.emergency_stop (pumps.py)
KEmergencyStop(k) == KFoldPumps(KStopImmediately, [k EXCEPT !.flag = TRUE], 1)

\* PumpManager.reset_emergency
KResetEmergency(k) == [k EXCEPT !.flag = FALSE]

\* Pump.pour_volume from the lock to the sleep: refused when the pump is not idle
KPourAdmitted(k, p) == k.pump[p].status = "idle"
KPourStart(k, p, t) ==
    [KControllerStart(k, p, KDefaultSpeed)
        EXCEPT !.pump[p].plock = t, !.pump[p].op = TRUE, !.pump[p].status = "pumping"]

\* Pump.pour_volume after the sleep: writing current_volume_ml raises when
\* current_operation is gone, and the handler marks the pump in error
KPourCompletes(k, p) == k.pump[p].op
KPourFinish(k, p) ==
    [KControllerStop(k, p)
        EXCEPT !.pump[p].status = IF k.pump[p].op THEN "idle" ELSE "error",
               !.pump[p].op = FALSE,
               !.pump[p].plock = 0]

(***************************************************************************)
(* Spec: one client at a time.                                             *)
(*   tipsy: the calls of tb6612_controller.PumpManager, each run to its    *)
(*          return before the next begins;                                 *)
(*   kivy:  asyncio tasks calling pumps.PumpManager; a task runs from one  *)
(*          await that suspends it to the next, and emergency_stop /       *)
(*          reset_emergency (plain functions) run between such segments.   *)
(***************************************************************************)
Bool(b) == IF b THEN "True" ELSE "False"

Last0 ==
    [op |-> "none", p |-> 0, v |-> 0, ret |-> "none", ran |-> FALSE,
     writes |-> <<>>, raised |-> FALSE, ch |-> "none", dir |-> "none"]
KTask0 == [pc |-> "idle", via |-> "none", p |-> 0, ing |-> 0, v |-> 0, ret |-> "none"]

\* threads of the concurrent specifications: two that make calls, and the
\* thread CleaningSystem.on_cocktail_made starts
Threads == {1, 2}
Spawned == 3
AllThreads == Threads \cup {Spawned}
Thread0 ==
    [pc |-> "idle", op |-> "none", p |-> 0, v |-> 0, tmp |-> 0, c |-> 0,
     ret |-> "none", hit |-> FALSE, credited |-> FALSE,
     rid |-> 0, i |-> 0, took |-> FALSE, drove |-> FALSE, stop |-> "no",
     mode |-> "none", at |-> "none", round |-> 0, events |-> <<>>]

\* CocktailMaker.__init__: preparation_status, current_order (0 is None) and the
\* holder of _preparation_lock (0 when free); CleaningSystem.__init__:
\* status.is_running, _stop_requested, the holder of _cleaning_lock and
\* cocktails_since_cleaning; CleaningStatus: current_mode, current_phase,
\* progress_percent and pumps_being_cleaned
\* CleaningHistory.__init__ with no history file: history is the empty list;
\* stamp counts the records made so far and stands for datetime.now()
Maker0 ==
    [status |-> "idle", order |-> 0, plock |-> 0,
     is_running |-> FALSE, stop_requested |-> FALSE, clock |-> 0, since |-> 0,
     current_mode |-> "none", current_phase |-> "none", progress |-> 0, pumps |-> {},
     history |-> <<>>, stamp |-> 0]

InitWorld ==
    /\ hw = World0
    /\ last = Last0
    /\ kw = KWorld0
    /\ ktask = [t \in KTasks |-> KTask0]
    /\ th = [t \in AllThreads |-> Thread0]
    /\ glock = 0
    /\ latched = FALSE
    /\ mk = Maker0

Init == program \in {"tipsy", "kivy"} /\ InitWorld

Tipsy == program = "tipsy" /\ UNCHANGED <<program, kw, ktask, th, glock, latched, mk>>
Kivy == program = "kivy" /\ UNCHANGED <<program, hw, last, th, glock, latched, mk>>

\* PumpManager.initialize
DoInitialize ==
    /\ Tipsy
    /\ hw' = ManagerInitialize(hw)
    /\ last' = [Last0 EXCEPT !.op = "initialize", !.ret = "True"]

\* PumpManager.cleanup
DoCleanup ==
    /\ Tipsy
    /\ hw' = ManagerCleanup(hw)
    /\ last' = [Last0 EXCEPT !.op = "cleanup"]

\* PumpManager.start_pump(p, speed)
DoStartPump ==
    /\ Tipsy
    /\ \E p \in PumpIds, speed \in SpeedInputs :
        /\ hw' = StartPump(hw, p, speed)
        /\ last' = [Last0 EXCEPT !.op = "start_pump", !.p = p,
                                 !.ret = Bool(StartPumpOk(hw, p))]

\* PumpManager.stop_pump(p)
DoStopPump ==
    /\ Tipsy
    /\ \E p \in PumpIds :
        /\ hw' = StopPump(hw, p)
        /\ last' = [Last0 EXCEPT !.op = "stop_pump", !.p = p,
                                 !.ret = Bool(StopPumpOk(hw, p))]

\* PumpManager.pour_volume(p, v, speed)
DoPourVolume ==
    /\ Tipsy
    /\ \E p \in PumpIds, v \in VolumeInputs, speed \in SpeedInputs :
        /\ (p \in Pumps /\ ~PourTimeTooLong(p, v)) => TotalVolume(hw) + v <= MaxVolume
        /\ hw' = PourVolume(hw, p, v, speed)
        /\ last' = [Last0 EXCEPT !.op = "pour_volume", !.p = p, !.v = v,
                                 !.ret = Bool(PourVolumeOk(hw, p, v, speed))]

\* PumpManager.emergency_stop()
DoEmergencyStop ==
    /\ Tipsy
    /\ hw' = EmergencyStop(hw)
    /\ last' = [Last0 EXCEPT !.op = "emergency_stop",
                             !.ran = \E p \in Pumps : IsRunning(hw, p)]

\* PumpManager.reset_emergency_stop()
DoResetEmergencyStop ==
    /\ Tipsy
    /\ hw' = ResetEmergencyStop(hw)
    /\ last' = [Last0 EXCEPT !.op = "reset_emergency_stop"]

\* a task calls PumpManager.pour_ingredient(ing, v)
KCallPourIngredient(t) ==
    /\ Kivy
    /\ ktask[t].pc = "idle"
    /\ \E ing \in KIngredients, v \in KVolumeInputs :
        ktask' = [ktask EXCEPT ![t] = [pc |-> "pour_ingredient", via |-> "ingredient",
                                       p |-> 0, ing |-> ing, v |-> v, ret |-> "none"]]
    /\ kw' = kw

\* a task calls Pump.pour_volume(v) on pump p
KCallPourVolume(t) ==
    /\ Kivy
    /\ ktask[t].pc = "idle"
    /\ \E p \in KPumps, v \in KVolumeInputs :
        ktask' = [ktask EXCEPT ![t] = [pc |-> "pour_volume", via |-> "pump",
                                       p |-> p, ing |-> 0, v |-> v, ret |-> "none"]]
    /\ kw' = kw

\* the end of a task's call: result r, PumpManager._lock released if it holds it
KReturn(k, t, r) ==
    /\ kw' = [k EXCEPT !.mlock = IF @ = t THEN 0 ELSE @]
    /\ ktask' = [ktask EXCEPT ![t].pc = "idle", ![t].ret = r]

\* Pump.pour_volume once Pump._lock is free: refuse, or start and sleep
KPourVolumeBody(k, t, p) ==
    IF ~KPourAdmitted(k, p)
    THEN KReturn(k, t, "False")
    ELSE /\ kw' = KPourStart(k, p, t)
         /\ ktask' = [ktask EXCEPT ![t].pc = "sleeping", ![t].p = p]

\* pour_ingredient once PumpManager._lock is free, up to its first suspension
KPourIngredientEnter(t) ==
    /\ Kivy
    /\ ktask[t].pc = "pour_ingredient"
    /\ kw.mlock = 0
    /\ LET p == ktask[t].ing
           k == [kw EXCEPT !.mlock = t]
       IN IF kw.flag \/ p \notin KPumps
          THEN KReturn(k, t, "False")
          ELSE IF k.pump[p].plock # 0
          THEN /\ kw' = k
               /\ ktask' = [ktask EXCEPT ![t].pc = "pour_volume", ![t].p = p]
          ELSE KPourVolumeBody(k, t, p)

\* Pump.pour_volume resumes when Pump._lock is free
KPourVolumeEnter(t) ==
    /\ Kivy
    /\ ktask[t].pc = "pour_volume"
    /\ kw.pump[ktask[t].p].plock = 0
    /\ KPourVolumeBody(kw, t, ktask[t].p)

\* Pump.pour_volume after asyncio.sleep(duration_s)
KPourWake(t) ==
    /\ Kivy
    /\ ktask[t].pc = "sleeping"
    /\ KReturn(KPourFinish(kw, ktask[t].p), t, Bool(KPourCompletes(kw, ktask[t].p)))

\* PumpManager.emergency_stop() (pumps.py)
KDoEmergencyStop ==
    /\ Kivy
    /\ kw' = KEmergencyStop(kw)
    /\ ktask' = ktask

\* PumpManager.reset_emergency()
KDoResetEmergency ==
    /\ Kivy
    /\ kw' = KResetEmergency(kw)
    /\ ktask' = ktask

Next ==
    \/ DoInitialize
    \/ DoCleanup
    \/ DoStartPump
    \/ DoStopPump
    \/ DoPourVolume
    \/ DoEmergencyStop
    \/ DoResetEmergencyStop
    \/ \E t \in KTasks : KCallPourIngredient(t)
    \/ \E t \in KTasks : KCallPourVolume(t)
    \/ \E t \in KTasks : KPourIngredientEnter(t)
    \/ \E t \in KTasks : KPourVolumeEnter(t)
    \/ \E t \in KTasks : KPourWake(t)
    \/ KDoEmergencyStop
    \/ KDoResetEmergency

Spec == Init /\ [][Next]_vars

(***************************************************************************)
(* SpecThreads: tipsy, PumpManager called from several threads.  A step is *)
(* what one thread does between two points where another thread can        *)
(* observe or change the shared state: TB6612Controller._lock makes        *)
(* set_motor_speed and stop_all atomic, everything else in PumpManager     *)
(* runs without a lock except the loop of emergency_stop.                  *)
(* A thread record: op the top-level call, pc the position in it, p, v the *)
(* arguments, tmp the value read for volume_dispensed +=, c the controller *)
(* emergency_stop has reached, ret the result of the last call; hit says   *)
(* that emergency_stop was invoked while this pour_volume was in its       *)
(* time.sleep, credited that this pour_volume wrote volume_dispensed.      *)
(***************************************************************************)
ThreadPumpIds == {0, 1, 2}
ThreadVolumeInputs == {0, 1, 200}
\* speed_percent: int = 100, the default of start_pump and pour_volume
DefaultSpeed == 100

Threaded == program \in {"threads", "maker"} /\ UNCHANGED <<program, last, kw, ktask>>
\* a thread calls the pump manager directly
Direct == program = "threads" /\ UNCHANGED mk

InitThreads == program = "threads" /\ InitWorld

\* pressure of CLEANING_CYCLES[CleaningMode.QUICK]
QuickPressure == 60

\* the speed_percent of the start_pump thread t is in: the default 100 from
\* pour_volume, the cycle's pressure for the solution pump, half of it for a pulse
ThreadSpeed(t) ==
    IF th[t].at = "solution" THEN QuickPressure
    ELSE IF th[t].at = "pulse" THEN QuickPressure \div 2
    ELSE DefaultSpeed

\* the thread record when the top-level call returns r
Returned(t, r) ==
    [th[t] EXCEPT !.pc = "idle", !.ret = r, !.p = 0, !.v = 0, !.tmp = 0, !.c = 0,
                 !.i = 0, !.at = "none", !.round = 0, !.events = <<>>]

NewCall(op, p, v) ==
    [Thread0 EXCEPT !.op = op, !.p = p, !.v = v]

\* where thread t goes on when its pour_volume returns r: a direct call returns;
\* in prepare_cocktail the result is awaited (cocktail_manager.py line 596), the
\* await of a bool raises TypeError, and pump_operation's handler
\* (tb6612_controller.py 505-508) calls emergency_stop
AfterPourVolume(t, r) ==
    IF th[t].op = "prepare_cocktail"
    THEN [th[t] EXCEPT !.pc = "es_flag", !.p = 0, !.v = 0, !.tmp = 0]
    ELSE Returned(t, Bool(r))

\* where thread t goes on when its start_pump returns r: the cleaning cycle
\* ignores the result and sleeps (cleaning_system.py 431-432, 457-458)
AfterStartPump(t, r) ==
    IF th[t].op = "start_pump" THEN Returned(t, Bool(r))
    ELSE IF th[t].at # "none" THEN [th[t] EXCEPT !.pc = "cl_sleep", !.drove = @ \/ r]
    ELSE IF r THEN [th[t] EXCEPT !.pc = "pv_sleep"]
    ELSE AfterPourVolume(t, FALSE)

\* where thread t goes on when its stop_pump returns r: after the solution pump
\* the circulation loop starts (cleaning_system.py 433-438), after a pulse the
\* next pump of the for loop follows (459-460)
AfterStopPump(t, r) ==
    IF th[t].op = "stop_pump" THEN Returned(t, Bool(r))
    ELSE IF th[t].at = "solution"
         THEN [th[t] EXCEPT !.pc = "cl_while", !.at = "none", !.p = 0, !.round = 0]
    ELSE IF th[t].at = "pulse"
         THEN [th[t] EXCEPT !.pc = "cl_for", !.at = "none", !.p = @ + 1]
    ELSE IF r THEN [th[t] EXCEPT !.pc = "pv_read"]
    ELSE AfterPourVolume(t, FALSE)

\* where thread t goes on when its emergency_stop returns: in prepare_cocktail
\* the TypeError is re-raised out of the with block to the handler of line 636;
\* in stop_preparation line 677 follows; start_cleaning returns False
\* (cleaning_system.py 383-384)
AfterEmergencyStop(t) ==
    IF th[t].op = "prepare_cocktail" THEN [th[t] EXCEPT !.pc = "pc_error", !.c = 0]
    ELSE IF th[t].op = "stop_preparation" THEN [th[t] EXCEPT !.pc = "sx_status", !.c = 0]
    ELSE IF th[t].op \in {"start_cleaning", "check_maintenance"} THEN Returned(t, "False")
    ELSE Returned(t, "none")

\* volume the pours in progress may still credit
RECURSIVE Pending(_)
Pending(t) ==
    IF t = 0 THEN 0
    ELSE Pending(t - 1) + (IF th[t].op = "pour_volume" /\ th[t].pc # "idle" THEN th[t].v ELSE 0)

\* pump_manager.initialize() at start-up, before the worker threads are busy
TInitialize ==
    /\ Threaded
    /\ UNCHANGED mk
    /\ ~hw.pm_init
    /\ \A t \in AllThreads : th[t].pc = "idle"
    /\ hw' = ManagerInitialize(hw)
    /\ UNCHANGED <<th, glock, latched>>

\* a thread calls start_pump(p): lines 325-337 up to the flag test are its own
TCallStartPump(t) ==
    /\ Threaded /\ Direct
    /\ th[t].pc = "idle"
    /\ \E p \in ThreadPumpIds :
         th' = [th EXCEPT ![t] = [NewCall("start_pump", p, 0) EXCEPT !.pc = "sp_check"]]
    /\ UNCHANGED <<hw, glock, latched>>

\* a thread calls stop_pump(p): the pump lookup, lines 362-370
TCallStopPump(t) ==
    /\ Threaded /\ Direct
    /\ th[t].pc = "idle"
    /\ \E p \in ThreadPumpIds :
         th' = [th EXCEPT ![t] =
                  IF p \in Pumps
                  THEN [NewCall("stop_pump", p, 0) EXCEPT !.pc = "st_set"]
                  ELSE [NewCall("stop_pump", 0, 0) EXCEPT !.ret = "False"]]
    /\ UNCHANGED <<hw, glock, latched>>

\* a thread calls pour_volume(p, v): lines 394-410 read only the configuration
TCallPourVolume(t) ==
    /\ Threaded /\ Direct
    /\ th[t].pc = "idle"
    /\ \E p \in ThreadPumpIds, v \in ThreadVolumeInputs :
         /\ (p \in Pumps /\ v > 0 /\ ~PourTimeTooLong(p, v))
               => TotalVolume(hw) + Pending(Cardinality(AllThreads)) + v <= MaxVolume
         /\ th' = [th EXCEPT ![t] =
                  IF p \notin Pumps THEN [NewCall("pour_volume", 0, 0) EXCEPT !.ret = "False"]
                  ELSE IF v <= 0 THEN [NewCall("pour_volume", 0, 0) EXCEPT !.ret = "True"]
                  ELSE IF PourTimeTooLong(p, v)
                       THEN [NewCall("pour_volume", 0, 0) EXCEPT !.ret = "False"]
                  ELSE [NewCall("pour_volume", p, v) EXCEPT !.pc = "sp_check"]]
    /\ UNCHANGED <<hw, glock, latched>>

\* start_pump, lines 325-337: the unlocked test of _emergency_stop and the lookup
TStartCheck(t) ==
    /\ Threaded
    /\ th[t].pc = "sp_check"
    /\ th' = [th EXCEPT ![t] =
                IF hw.flag \/ th[t].p \notin Pumps THEN AfterStartPump(t, FALSE)
                ELSE [th[t] EXCEPT !.pc = "sp_set"]]
    /\ UNCHANGED <<hw, glock, latched, mk>>

\* start_pump, lines 340-343: controller.set_motor_speed under the controller's lock
TStartSet(t) ==
    /\ Threaded
    /\ th[t].pc = "sp_set"
    /\ hw' = SetMotorSpeed(hw, PumpController(th[t].p), PumpChannel(th[t].p),
                           AdjustedSpeed(ThreadSpeed(t)), "forward")
    /\ th' = [th EXCEPT ![t] =
                IF SetMotorSpeedOk(hw, PumpController(th[t].p))
                THEN [th[t] EXCEPT !.pc = "sp_mark"]
                ELSE AfterStartPump(t, FALSE)]
    /\ UNCHANGED <<glock, latched, mk>>

\* start_pump, lines 349-353: last_started is set and start_pump returns True;
\* in pour_volume the thread then enters time.sleep(pour_time)
TStartMark(t) ==
    /\ Threaded
    /\ th[t].pc = "sp_mark"
    /\ hw' = [hw EXCEPT !.motor[PumpController(th[t].p)][PumpChannel(th[t].p)].last_started = TRUE]
    /\ th' = [th EXCEPT ![t] = AfterStartPump(t, TRUE)]
    /\ UNCHANGED <<glock, latched, mk>>

\* a stop_pump that leaves the motor as it is
TStopSet_LeavesMotor(t) ==
    /\ Threaded
    /\ th[t].pc \in {"st_set", "pv_sleep", "cl_sleep"}
    /\ hw' = hw
    /\ th' = [th EXCEPT ![t] =
                IF SetMotorSpeedOk(hw, PumpController(th[t].p))
                THEN [th[t] EXCEPT !.pc = "st_mark"]
                ELSE AfterStopPump(t, FALSE)]
    /\ UNCHANGED <<glock, latched, mk>>

\* stop_pump, line 372: controller.stop_motor under the controller's lock; reached
\* by a stop_pump call, by pour_volume when its time.sleep(pour_time) is over and
\* by the cleaning cycle when its sleep after start_pump is over
TStopSet(t) ==
    /\ Threaded
    /\ th[t].pc \in {"st_set", "pv_sleep", "cl_sleep"}
    /\ hw' = SetMotorSpeed(hw, PumpController(th[t].p), PumpChannel(th[t].p), 0, "stopped")
    /\ th' = [th EXCEPT ![t] =
                IF SetMotorSpeedOk(hw, PumpController(th[t].p))
                THEN [th[t] EXCEPT !.pc = "st_mark"]
                ELSE AfterStopPump(t, FALSE)]
    /\ UNCHANGED <<glock, latched, mk>>

\* stop_pump, lines 378-385: last_started is cleared and stop_pump returns True
\* after its shutdown delay; pour_volume then reads volume_dispensed (line 429)
TStopMark(t) ==
    /\ Threaded
    /\ th[t].pc = "st_mark"
    /\ hw' = [hw EXCEPT !.motor[PumpController(th[t].p)][PumpChannel(th[t].p)].last_started = FALSE]
    /\ th' = [th EXCEPT ![t] = AfterStopPump(t, TRUE)]
    /\ UNCHANGED <<glock, latched, mk>>

\* pour_volume, line 429: the read of status.volume_dispensed += volume_ml
TPourRead(t) ==
    /\ Threaded
    /\ th[t].pc = "pv_read"
    /\ th' = [th EXCEPT ![t].pc = "pv_write", ![t].tmp = VolumeOf(hw, th[t].p)]
    /\ UNCHANGED <<hw, glock, latched, mk>>

\* pour_volume, lines 429-431: the write of volume_dispensed, and return True
TPourWrite(t) ==
    /\ Threaded
    /\ th[t].pc = "pv_write"
    /\ hw' = [hw EXCEPT !.motor[PumpController(th[t].p)][PumpChannel(th[t].p)].volume_dispensed
                          = th[t].tmp + th[t].v]
    /\ th' = [th EXCEPT ![t] = [AfterPourVolume(t, TRUE) EXCEPT !.credited = TRUE]]
    /\ UNCHANGED <<glock, latched, mk>>

\* a thread calls emergency_stop: line 441 sets the flag before any lock is taken
TCallEmergencyStop(t) ==
    /\ Threaded /\ Direct
    /\ th[t].pc = "idle"
    /\ hw' = [hw EXCEPT !.flag = TRUE]
    /\ th' = [u \in AllThreads |->
                IF u = t THEN [NewCall("emergency_stop", 0, 0) EXCEPT !.pc = "es_lock"]
                ELSE IF th[u].pc = "pv_sleep" THEN [th[u] EXCEPT !.hit = TRUE]
                ELSE th[u]]
    /\ UNCHANGED <<glock, latched>>

\* emergency_stop, line 443: with self._global_lock
TEmergencyLock(t) ==
    /\ Threaded
    /\ th[t].pc = "es_lock"
    /\ glock = 0
    /\ glock' = t
    /\ th' = [th EXCEPT ![t].pc = "es_stop", ![t].c = 0]
    /\ UNCHANGED <<hw, latched, mk>>

\* emergency_stop, lines 444-448: controller.stop_all() on the next controller;
\* after the last one the lock is released and emergency_stop returns
TEmergencyStopAll(t) ==
    /\ Threaded
    /\ th[t].pc = "es_stop"
    /\ hw' = StopAllMotors(hw, th[t].c)
    /\ IF th[t].c + 1 < NumControllers
       THEN /\ th' = [th EXCEPT ![t].c = @ + 1]
            /\ UNCHANGED <<glock, latched>>
       ELSE /\ th' = [th EXCEPT ![t] = AfterEmergencyStop(t)]
            /\ glock' = 0
            /\ latched' = TRUE
    /\ mk' = IF th'[t].pc = "pc_error" THEN [mk EXCEPT !.plock = 0] ELSE mk

\* a thread calls reset_emergency_stop, lines 450-453
TResetEmergencyStop(t) ==
    /\ Threaded
    /\ UNCHANGED mk
    /\ th[t].pc = "idle"
    /\ hw' = ResetEmergencyStop(hw)
    /\ th' = [th EXCEPT ![t] = NewCall("reset_emergency_stop", 0, 0)]
    /\ latched' = FALSE
    /\ UNCHANGED glock

NextThreads ==
    \/ TInitialize
    \/ \E t \in Threads : TCallStartPump(t)
    \/ \E t \in Threads : TCallStopPump(t)
    \/ \E t \in Threads : TCallPourVolume(t)
    \/ \E t \in Threads : TStartCheck(t)
    \/ \E t \in Threads : TStartSet(t)
    \/ \E t \in Threads : TStartMark(t)
    \/ \E t \in Threads : TStopSet(t)
    \/ \E t \in Threads : TStopMark(t)
    \/ \E t \in Threads : TPourRead(t)
    \/ \E t \in Threads : TPourWrite(t)
    \/ \E t \in Threads : TCallEmergencyStop(t)
    \/ \E t \in Threads : TEmergencyLock(t)
    \/ \E t \in Threads : TEmergencyStopAll(t)
    \/ \E t \in Threads : TResetEmergencyStop(t)

SpecThreads == InitThreads /\ [][NextThreads]_vars

(***************************************************************************)
(* SpecPrepare: cocktail_manager.CocktailMaker on top of the pump manager. *)
(* Every prepare_cocktail runs in a thread of its own with its own event   *)
(* loop (art_deco_interface.py 1682-1697), so the RLock                    *)
(* _preparation_lock is held from line 538 to the end of the with block,   *)
(* awaits included; stop_preparation and the finally clause take no lock.  *)
(* Thread fields used here: rid the cocktail, i the position in the sorted *)
(* ingredients, took that this call set 'preparing', stop whether a        *)
(* stop_preparation found this preparation running ("called") and has      *)
(* since returned ("returned").                                            *)
(***************************************************************************)
\* the recipes of the database: ingredients as category, pump_id (0 is None),
\* is_available, amount_ml; Ingredient.__post_init__ leaves an ingredient
\* without pump unavailable.  1 has garnishes only, one of them named after the
\* ingredient of pump 1; 2 pours from pumps 1 and 2; 3 misses an ingredient;
\* 4 pours from pump 1 only; 0 is the id of no cocktail
RecipeIds == {0, 1, 2, 3, 4}
Recipes ==
    << << [category |-> "garnish", pump_id |-> 0, is_available |-> FALSE, amount_ml |-> 0],
          [category |-> "garnish", pump_id |-> 1, is_available |-> TRUE, amount_ml |-> 1] >>,
       << [category |-> "juices", pump_id |-> 2, is_available |-> TRUE, amount_ml |-> 1],
          [category |-> "spirits", pump_id |-> 1, is_available |-> TRUE, amount_ml |-> 1] >>,
       << [category |-> "spirits", pump_id |-> 0, is_available |-> FALSE, amount_ml |-> 1] >>,
       << [category |-> "spirits", pump_id |-> 1, is_available |-> TRUE, amount_ml |-> 1] >> >>

\* CocktailRecipe.garnish of the recipe is not empty
HasGarnish(rid) == rid = 1

\* CocktailDatabase.get_cocktail finds the recipe
KnownRecipe(rid) == rid \in 1 .. Len(Recipes)

\* CocktailRecipe.is_makeable
IsMakeable(rid) ==
    \A k \in 1 .. Len(Recipes[rid]) :
        Recipes[rid][k].category # "garnish" => Recipes[rid][k].is_available

\* CocktailMaker._get_pour_order
PourOrder(category) ==
    IF category = "spirits" THEN 1
    ELSE IF category = "syrups" THEN 2
    ELSE IF category = "juices" THEN 3
    ELSE IF category = "mixers" THEN 4
    ELSE IF category = "garnish" THEN 5
    ELSE 3

\* sorted(list, key): x is put behind the elements whose key is not larger
RECURSIVE InsertSorted(_, _)
InsertSorted(x, seq) ==
    IF seq = <<>> THEN <<x>>
    ELSE IF PourOrder(x.category) < PourOrder(Head(seq).category) THEN <<x>> \o seq
    ELSE <<Head(seq)>> \o InsertSorted(x, Tail(seq))

RECURSIVE SortByPourOrder(_)
SortByPourOrder(seq) ==
    IF seq = <<>> THEN <<>>
    ELSE InsertSorted(seq[Len(seq)], SortByPourOrder(SubSeq(seq, 1, Len(seq) - 1)))

\* sorted_ingredients of lines 575-576
SortedIngredients(rid) == SortByPourOrder(Recipes[rid])

\* the test of lines 579-584: the loop pours this ingredient
Pourable(ing) ==
    ing.category # "garnish" /\ ing.is_available /\ ing.pump_id # 0

\* position of the first ingredient the loop pours at or after position i,
\* 0 when the loop ends without another pour
RECURSIVE NextPour(_, _)
NextPour(rid, i) ==
    IF i > Len(SortedIngredients(rid)) THEN 0
    ELSE IF Pourable(SortedIngredients(rid)[i]) THEN i
    ELSE NextPour(rid, i + 1)

\* current_step when the loop is at position i: the pours made before it
RECURSIVE StepsBefore(_, _)
StepsBefore(rid, i) ==
    IF i <= 1 THEN 0
    ELSE StepsBefore(rid, i - 1)
         + (IF Pourable(SortedIngredients(rid)[i - 1]) THEN 1 ELSE 0)

\* total_steps of line 571: the ingredients that are no garnish
RECURSIVE TotalSteps(_, _)
TotalSteps(rid, i) ==
    IF i > Len(Recipes[rid]) THEN 0
    ELSE (IF Recipes[rid][i].category # "garnish" THEN 1 ELSE 0) + TotalSteps(rid, i + 1)

\* the progress value of line 590 for the pour at position i
PourProgress(rid, i) == (StepsBefore(rid, i) * 100) \div TotalSteps(rid, 1)

\* all a preparation of the recipe can pour (dose "single", size 1.0)
RECURSIVE RecipeVolume(_, _)
RecipeVolume(rid, i) ==
    IF ~KnownRecipe(rid) \/ i > Len(Recipes[rid]) THEN 0
    ELSE (IF Pourable(Recipes[rid][i]) THEN Recipes[rid][i].amount_ml ELSE 0)
         + RecipeVolume(rid, i + 1)

\* between taking 'preparing' and the return statement of the call
Preparing(u) ==
    /\ th[u].op = "prepare_cocktail"
    /\ th[u].took
    /\ th[u].pc \notin {"idle", "pc_finally", "pc_reset_status", "pc_reset_order"}

InitMaker == program = "maker" /\ InitWorld
Maker == program = "maker"
\* volume the calls in progress may still credit
RECURSIVE PendingAll(_)
PendingAll(t) ==
    IF t = 0 THEN 0
    ELSE PendingAll(t - 1)
         + (IF th[t].op = "prepare_cocktail" /\ th[t].pc # "idle"
            THEN RecipeVolume(th[t].rid, 1) ELSE 0)

\* a thread calls prepare_cocktail(rid) for one of the cocktails rids
TCallPrepareOf(t, rids) ==
    /\ Threaded /\ Maker
    /\ th[t].pc = "idle"
    /\ \E rid \in rids :
         /\ TotalVolume(hw) + PendingAll(Cardinality(AllThreads)) + RecipeVolume(rid, 1) <= MaxVolume
         /\ th' = [th EXCEPT ![t] = [Thread0 EXCEPT !.op = "prepare_cocktail",
                                                     !.rid = rid, !.pc = "pc_lock"]]
    /\ UNCHANGED <<hw, glock, latched, mk>>

TCallPrepare(t) == TCallPrepareOf(t, RecipeIds)

\* lines 538-550: the lock is acquired; a status other than "idle", an unknown
\* cocktail or a cocktail that is not makeable returns False, which leaves the
\* with block and goes to the finally clause
TPrepareEnter(t) ==
    /\ Threaded /\ Maker
    /\ th[t].pc = "pc_lock"
    /\ mk.plock = 0
    /\ IF mk.status # "idle" \/ ~KnownRecipe(th[t].rid) \/ ~IsMakeable(th[t].rid)
       THEN /\ th' = [th EXCEPT ![t].pc = "pc_finally", ![t].ret = "False"]
            /\ mk' = mk
       ELSE /\ th' = [th EXCEPT ![t].pc = "pc_order"]
            /\ mk' = [mk EXCEPT !.plock = t]
    /\ UNCHANGED <<hw, glock, latched>>

\* line 555: self.current_order = cocktail
TPrepareOrder(t) ==
    /\ Threaded /\ Maker
    /\ th[t].pc = "pc_order"
    /\ mk' = [mk EXCEPT !.order = th[t].rid]
    /\ th' = [th EXCEPT ![t].pc = "pc_status"]
    /\ UNCHANGED <<hw, glock, latched>>

\* lines 556-560: self.preparation_status = "preparing", and the progress
\* event ("Initialisation", 0)
TPrepareStatus(t) ==
    /\ Threaded /\ Maker
    /\ th[t].pc = "pc_status"
    /\ mk' = [mk EXCEPT !.status = "preparing"]
    /\ th' = [th EXCEPT ![t].pc = "pc_pumps", ![t].took = TRUE,
                        ![t].events = Append(@, 0)]
    /\ UNCHANGED <<hw, glock, latched>>

\* line 564, pump_operation (tb6612_controller.py 500-504): the pump manager is
\* initialized if it is not
TPreparePumps(t) ==
    /\ Threaded /\ Maker
    /\ th[t].pc = "pc_pumps"
    /\ hw.pm_init \/ glock = 0
    /\ hw' = ManagerInitialize(hw)
    /\ th' = [th EXCEPT ![t].pc = "pc_loop", ![t].i = 1]
    /\ UNCHANGED <<glock, latched, mk>>

\* lines 578-596: the loop skips to the next ingredient it pours, emits its
\* progress event and calls pour_volume, whose lines 394-410 return at once
\* for an unknown pump, a volume <= 0 or a pour that would take too long; with
\* nothing left to pour the loop ends with the event ("Finalisation", 95)
TPrepareLoop(t) ==
    /\ Threaded /\ Maker
    /\ th[t].pc = "pc_loop"
    /\ LET i == NextPour(th[t].rid, th[t].i)
           ing == SortedIngredients(th[t].rid)[i]
           ev == Append(th[t].events, PourProgress(th[t].rid, i))
       IN th' = [th EXCEPT ![t] =
                   IF i = 0 THEN [th[t] EXCEPT !.pc = "pc_complete",
                                               !.events = Append(@, 95)]
                   ELSE IF \/ ing.pump_id \notin Pumps
                           \/ ing.amount_ml <= 0
                           \/ PourTimeTooLong(ing.pump_id, ing.amount_ml)
                        THEN [AfterPourVolume(t, ing.pump_id \in Pumps /\ ing.amount_ml <= 0)
                                 EXCEPT !.events = ev]
                   ELSE [th[t] EXCEPT !.pc = "sp_check", !.i = i, !.events = ev,
                                      !.p = ing.pump_id, !.v = ing.amount_ml]]
    /\ UNCHANGED <<hw, glock, latched, mk>>

\* emergency_stop called inside another call, line 441: the flag is set
TEmergencyFlag(t) ==
    /\ Threaded
    /\ th[t].pc = "es_flag"
    /\ hw' = [hw EXCEPT !.flag = TRUE]
    /\ th' = [u \in AllThreads |->
                IF u = t THEN [th[t] EXCEPT !.pc = "es_lock"]
                ELSE IF th[u].pc = "pv_sleep" THEN [th[u] EXCEPT !.hit = TRUE]
                ELSE th[u]]
    /\ UNCHANGED <<glock, latched, mk>>

\* lines 636-639: the handler of the outer try, reached with the lock released
TPrepareError(t) ==
    /\ Threaded /\ Maker
    /\ th[t].pc = "pc_error"
    /\ mk' = [mk EXCEPT !.status = "error"]
    /\ th' = [th EXCEPT ![t].pc = "pc_finally", ![t].ret = "False"]
    /\ UNCHANGED <<hw, glock, latched>>

\* lines 610-629: the events ("Garnir avec ...", 98) when the recipe has a
\* garnish and ("Terminé", 100), status "completed", return True out of the
\* with block
TPrepareComplete(t) ==
    /\ Threaded /\ Maker
    /\ th[t].pc = "pc_complete"
    /\ mk' = [mk EXCEPT !.status = "completed", !.plock = 0]
    /\ th' = [th EXCEPT ![t].pc = "pc_finally", ![t].ret = "True",
                        ![t].events = (IF HasGarnish(th[t].rid) THEN Append(@, 98) ELSE @)
                                         \o <<100>>]
    /\ UNCHANGED <<hw, glock, latched>>

\* a finally clause that returns without resetting anything
TPrepareFinally_NoReset(t) ==
    /\ Threaded /\ Maker
    /\ th[t].pc = "pc_finally"
    /\ th' = [th EXCEPT ![t] = Returned(t, th[t].ret)]
    /\ UNCHANGED <<hw, glock, latched, mk>>

\* lines 643-644: after the sleep of the finally clause the status is read
TPrepareFinally(t) ==
    /\ Threaded /\ Maker
    /\ th[t].pc = "pc_finally"
    /\ th' = [th EXCEPT ![t] =
                IF mk.status # "idle" THEN [th[t] EXCEPT !.pc = "pc_reset_status"]
                ELSE Returned(t, th[t].ret)]
    /\ UNCHANGED <<hw, glock, latched, mk>>

\* line 645: self.preparation_status = "idle"
TPrepareResetStatus(t) ==
    /\ Threaded /\ Maker
    /\ th[t].pc = "pc_reset_status"
    /\ mk' = [mk EXCEPT !.status = "idle"]
    /\ th' = [th EXCEPT ![t].pc = "pc_reset_order"]
    /\ UNCHANGED <<hw, glock, latched>>

\* line 646: self.current_order = None, and the call returns
TPrepareResetOrder(t) ==
    /\ Threaded /\ Maker
    /\ th[t].pc = "pc_reset_order"
    /\ mk' = [mk EXCEPT !.order = 0]
    /\ th' = [th EXCEPT ![t] = Returned(t, th[t].ret)]
    /\ UNCHANGED <<hw, glock, latched>>

\* a thread calls stop_preparation: line 673 reads the status; when it is
\* "preparing" emergency_stop is called (line 676)
TCallStopPreparation(t) ==
    /\ Threaded /\ Maker
    /\ th[t].pc = "idle"
    /\ th' = [u \in AllThreads |->
                IF u = t
                THEN IF mk.status = "preparing"
                     THEN [Thread0 EXCEPT !.op = "stop_preparation", !.pc = "es_flag"]
                     ELSE [Thread0 EXCEPT !.op = "stop_preparation"]
                ELSE IF mk.status = "preparing" /\ Preparing(u) /\ th[u].stop = "no"
                     THEN [th[u] EXCEPT !.stop = "called"]
                ELSE th[u]]
    /\ UNCHANGED <<hw, glock, latched, mk>>

\* line 677: self.preparation_status = "idle"
TStopStatus(t) ==
    /\ Threaded /\ Maker
    /\ th[t].pc = "sx_status"
    /\ mk' = [mk EXCEPT !.status = "idle"]
    /\ th' = [th EXCEPT ![t].pc = "sx_order"]
    /\ UNCHANGED <<hw, glock, latched>>

\* line 678: self.current_order = None, and stop_preparation returns
TStopOrder(t) ==
    /\ Threaded /\ Maker
    /\ th[t].pc = "sx_order"
    /\ mk' = [mk EXCEPT !.order = 0]
    /\ th' = [u \in AllThreads |->
                IF u = t THEN Returned(t, "none")
                ELSE IF Preparing(u) /\ th[u].stop = "called"
                     THEN [th[u] EXCEPT !.stop = "returned"]
                ELSE th[u]]
    /\ UNCHANGED <<hw, glock, latched>>

\* what thread t does next inside the call it is in
StepPrepare(t) ==
    \/ TPrepareEnter(t) \/ TPrepareOrder(t) \/ TPrepareStatus(t) \/ TPreparePumps(t)
    \/ TPrepareLoop(t) \/ TPrepareError(t) \/ TPrepareComplete(t)
    \/ TPrepareFinally(t) \/ TPrepareResetStatus(t) \/ TPrepareResetOrder(t)
    \/ TStopStatus(t) \/ TStopOrder(t)
    \/ TEmergencyFlag(t) \/ TEmergencyLock(t) \/ TEmergencyStopAll(t)
    \/ TStartCheck(t) \/ TStartSet(t) \/ TStartMark(t)
    \/ TStopSet(t) \/ TStopMark(t) \/ TPourRead(t) \/ TPourWrite(t)

NextPrepare ==
    \/ TInitialize
    \/ \E t \in Threads : TCallPrepare(t)
    \/ \E t \in Threads : TCallStopPreparation(t)
    \/ \E t \in Threads : TResetEmergencyStop(t)
    \/ \E t \in Threads : StepPrepare(t)

\* every thread that can take a step of its call eventually takes one: a
\* sleep ends, and a thread waiting for a lock that keeps being released gets it
SpecPrepare ==
    /\ InitMaker
    /\ [][NextPrepare]_vars
    /\ \A t \in Threads : SF_vars(StepPrepare(t))

(***************************************************************************)
(* SpecMaker: CocktailMaker together with cleaning_system.CleaningSystem.  *)
(* Thread 1 prepares and stops a cleaning, thread 2 cleans and stops a     *)
(* preparation.  SpecCleaning: the cleaning system alone, two threads that *)
(* start and stop cleaning cycles.  SpecAuto: thread 1 prepares, thread 2  *)
(* calls on_cocktail_made and main.check_maintenance, thread 3 is the      *)
(* thread on_cocktail_made starts.  start_cleaning holds the RLock         *)
(* _cleaning_lock from line 304 to the end of the with block.              *)
(* Thread fields used here: mode the argument of start_cleaning, i the     *)
(* phase, p the pump of the for loop, at whether the start_pump/stop_pump  *)
(* in progress drives the solution pump or a pulse, round the earliest    *)
(* reading of the clock at the next test of the circulation loop.          *)
(***************************************************************************)
\* add_cleaning_record, line 174: the number of records kept
HistoryLimit == 100
\* self.history[-100:] keeps the first records instead of the last
AddCleaningRecord_KeepOldest(m, mode, success) ==
    LET h == Append(m.history, [timestamp |-> m.stamp, mode |-> mode, success |-> success])
    IN [m EXCEPT !.history = IF Len(h) > HistoryLimit THEN SubSeq(h, 1, HistoryLimit) ELSE h,
                 !.stamp = @ + 1]

\* CleaningHistory.add_cleaning_record, lines 160-177: the record is appended
\* and the list cut to its last 100 entries
AddCleaningRecord(m, mode, success) ==
    LET h == Append(m.history, [timestamp |-> m.stamp, mode |-> mode, success |-> success])
    IN [m EXCEPT !.history = IF Len(h) > HistoryLimit
                             THEN SubSeq(h, Len(h) - HistoryLimit + 1, Len(h))
                             ELSE h,
                 !.stamp = @ + 1]

\* 'quick_cleaning_interval' of MaintenanceScheduler
QuickCleaningInterval == 5
\* cap on cocktails_since_cleaning, enforced in the guard of on_cocktail_made
MaxCocktails == 5

\* cap on the number of cleaning cycles recorded in the history
MaxCycles == 1
\* the clock readings of a phase: 0 is its start, PhaseTicks the end of its
\* duration, PhaseTicks + 1 any later time
PhaseTicks == 1

\* arguments of start_cleaning: CleaningMode.QUICK, and the string "quick"
\* that main.py (213) and web_interface.py (1094) pass
CleaningModes == {"QUICK", "quick"}

\* every member of CleaningMode, and the string "quick"
CounterModes == {"QUICK", "STANDARD", "DEEP", "SANITIZE_ONLY", "quick"}

\* CLEANING_CYCLES[mode].phases; the string is no key of CLEANING_CYCLES
ValidMode(mode) == mode \in {"QUICK", "STANDARD", "DEEP", "SANITIZE_ONLY"}
Phases(mode) ==
    CASE mode = "QUICK" -> <<"rinse", "clean">>
      [] mode = "STANDARD" -> <<"rinse", "clean", "sanitize", "final_rinse">>
      [] mode = "DEEP" -> <<"rinse", "clean", "sanitize", "final_rinse", "dry">>
      [] mode = "SANITIZE_ONLY" -> <<"sanitize", "final_rinse">>
      [] OTHER -> <<>>
\* CleaningMode.X.value
ModeValue(mode) ==
    CASE mode = "QUICK" -> "quick"
      [] mode = "STANDARD" -> "standard"
      [] mode = "DEEP" -> "deep"
      [] mode = "SANITIZE_ONLY" -> "sanitize"
      [] OTHER -> mode

\* a finalisation that resets the counter after every mode
CounterAfter_EveryMode(m, mode) == 0

\* start_cleaning, lines 358-360: cocktails_since_cleaning after a cycle of
\* this mode has been recorded
CounterAfter(m, mode) == IF mode \in {"STANDARD", "DEEP"} THEN 0 ELSE m.since

\* start_cleaning lines 341-342 and _liquid_phase lines 443-444:
\* phase_progress_base + phase_progress * phase_progress_span for the i-th
\* phase (from 1) when the clock reads e
PhaseProgress(mode, i, e) ==
    (((i - 1) * PhaseTicks + e) * 100) \div (Len(Phases(mode)) * PhaseTicks)

\* _liquid_phase, lines 417-433: the phases that drive the solution pump
UsesSolutionPump(phase) == phase \notin {"rinse", "final_rinse"}

\* CLEANING_PUMP_CONFIG: the last pump, channel B of the last controller
CleaningPump == 2 * NumControllers

\* pump_ids arguments of start_cleaning: the list of the first n pumps
PumpCountInputs == {1}
\* pump_ids None: every pump of PUMP_CONFIGS (lines 319-320)
AllPumps == 2 * NumControllers

\* a thread calls start_cleaning(mode, pump_ids) with one of the modes and
\* the list of the first n pumps for one of the counts; v is n
TCallStartCleaningOf(t, modes, counts) ==
    /\ Threaded /\ Maker
    /\ th[t].pc = "idle"
    /\ Len(mk.history) < MaxCycles
    /\ \E mode \in modes, n \in counts :
         th' = [th EXCEPT ![t] = [Thread0 EXCEPT !.op = "start_cleaning", !.v = n,
                                                  !.mode = mode, !.pc = "cl_lock"]]
    /\ UNCHANGED <<hw, glock, latched, mk>>

TCallStartCleaning(t) == TCallStartCleaningOf(t, CleaningModes, PumpCountInputs)

\* a start_cleaning that does not wait for _cleaning_lock
TCleaningEnter_NoLock(t) ==
    /\ Threaded /\ Maker
    /\ th[t].pc = "cl_lock"
    /\ IF mk.is_running
       THEN /\ th' = [th EXCEPT ![t] = Returned(t, "False")]
            /\ mk' = mk
       ELSE /\ th' = [th EXCEPT ![t].pc = "cl_mark"]
            /\ mk' = [mk EXCEPT !.clock = t]
    /\ UNCHANGED <<hw, glock, latched>>

\* start_cleaning, lines 304-307: the lock is acquired and is_running read
TCleaningEnter(t) ==
    /\ Threaded /\ Maker
    /\ th[t].pc = "cl_lock"
    /\ mk.clock = 0
    /\ IF mk.is_running
       THEN /\ th' = [th EXCEPT ![t] = Returned(t, "False")]
            /\ mk' = mk
       ELSE /\ th' = [th EXCEPT ![t].pc = "cl_mark"]
            /\ mk' = [mk EXCEPT !.clock = t]
    /\ UNCHANGED <<hw, glock, latched>>

\* lines 310-313: is_running = True, current_mode, current_phase and
\* progress_percent
TCleaningMark(t) ==
    /\ Threaded /\ Maker
    /\ th[t].pc = "cl_mark"
    /\ mk' = [mk EXCEPT !.is_running = TRUE, !.current_mode = th[t].mode,
                        !.current_phase = "none", !.progress = 0]
    /\ th' = [th EXCEPT ![t].pc = "cl_clear"]
    /\ UNCHANGED <<hw, glock, latched>>

\* lines 316-324: _stop_requested = False, pumps_being_cleaned = pump_ids,
\* then CLEANING_CYCLES[mode], which raises KeyError for a mode that is no
\* CleaningMode and leaves the with block
TCleaningClear(t) ==
    /\ Threaded /\ Maker
    /\ th[t].pc = "cl_clear"
    /\ IF ValidMode(th[t].mode)
       THEN /\ mk' = [mk EXCEPT !.stop_requested = FALSE, !.pumps = 1 .. th[t].v]
            /\ th' = [th EXCEPT ![t].pc = "cl_phase", ![t].i = 1]
       ELSE /\ mk' = [mk EXCEPT !.stop_requested = FALSE, !.pumps = 1 .. th[t].v,
                                !.clock = 0]
            /\ th' = [th EXCEPT ![t].pc = "cl_except"]
    /\ UNCHANGED <<hw, glock, latched>>

\* lines 333-345 and _execute_cleaning_phase up to _liquid_phase line 431: the
\* for loop ends after the last phase or on _stop_requested; otherwise
\* pump_operation initializes the pump manager if needed and the phase starts
\* the solution pump or goes to the circulation loop
TCleaningPhase(t) ==
    /\ Threaded /\ Maker
    /\ th[t].pc = "cl_phase"
    /\ IF th[t].i > Len(Phases(th[t].mode)) \/ mk.stop_requested
       THEN /\ th' = [th EXCEPT ![t].pc = "cl_final"]
            /\ hw' = hw
            /\ mk' = mk
       ELSE /\ hw.pm_init \/ glock = 0
            /\ hw' = ManagerInitialize(hw)
            /\ mk' = [mk EXCEPT !.current_phase = Phases(th[t].mode)[th[t].i]]
            /\ th' = [th EXCEPT ![t] =
                        IF Phases(th[t].mode)[th[t].i] = "dry"
                        THEN [th[t] EXCEPT !.pc = "cl_dry", !.round = 0]
                        ELSE IF UsesSolutionPump(Phases(th[t].mode)[th[t].i])
                        THEN [th[t] EXCEPT !.pc = "sp_check", !.at = "solution",
                                           !.p = CleaningPump]
                        ELSE [th[t] EXCEPT !.pc = "cl_while", !.round = 0]]
    /\ UNCHANGED <<glock, latched>>

\* _liquid_phase, lines 438-449: the while test reads the clock (e1), and when
\* the duration is not over and no stop is requested line 443 reads it again
\* (e2, not earlier) and _notify_progress sets progress_percent and calls the
\* callback; then the for loop over the pumps starts.  The first test is made
\* right after start_time was taken; a round of the loop sleeps, so the next
\* test reads a later time (round is the earliest it can read)
TCleaningWhile(t) ==
    /\ Threaded /\ Maker
    /\ th[t].pc = "cl_while"
    /\ \E e1 \in (IF th[t].round = 0 THEN {0} ELSE th[t].round .. Max2(th[t].round, PhaseTicks)) :
         IF e1 >= PhaseTicks \/ mk.stop_requested
         THEN /\ th' = [th EXCEPT ![t] =
                         [th[t] EXCEPT !.pc = "cl_phase", !.i = @ + 1, !.round = 0, !.p = 0]]
              /\ mk' = mk
         ELSE \E e2 \in e1 .. (PhaseTicks + 1) :
                /\ mk' = [mk EXCEPT !.progress = PhaseProgress(th[t].mode, th[t].i, e2)]
                /\ th' = [th EXCEPT ![t] =
                            [th[t] EXCEPT !.pc = "cl_for", !.p = 1, !.round = e2 + 1,
                                          !.events = Append(@, PhaseProgress(th[t].mode, th[t].i, e2))]]
    /\ UNCHANGED <<hw, glock, latched>>

\* _dry_phase, lines 464-484: the while test reads the clock, and when the
\* duration is not over and no stop is requested the progress is notified and
\* the phase sleeps; no pump is driven
TCleaningDry(t) ==
    /\ Threaded /\ Maker
    /\ th[t].pc = "cl_dry"
    /\ \E e1 \in (IF th[t].round = 0 THEN {0} ELSE th[t].round .. Max2(th[t].round, PhaseTicks)) :
         IF e1 >= PhaseTicks \/ mk.stop_requested
         THEN /\ th' = [th EXCEPT ![t] =
                         [th[t] EXCEPT !.pc = "cl_phase", !.i = @ + 1, !.round = 0]]
              /\ mk' = mk
         ELSE \E e2 \in e1 .. (PhaseTicks + 1) :
                /\ mk' = [mk EXCEPT !.progress = PhaseProgress(th[t].mode, th[t].i, e2)]
                /\ th' = [th EXCEPT ![t] =
                            [th[t] EXCEPT !.round = e2 + 1,
                                          !.events = Append(@, PhaseProgress(th[t].mode, th[t].i, e2))]]
    /\ UNCHANGED <<hw, glock, latched>>

\* lines 452-457: the next pump of pump_ids gets a pulse unless a stop is requested
TCleaningFor(t) ==
    /\ Threaded /\ Maker
    /\ th[t].pc = "cl_for"
    /\ th' = [th EXCEPT ![t] =
                IF th[t].p \notin 1 .. th[t].v \/ mk.stop_requested
                THEN [th[t] EXCEPT !.pc = "cl_while", !.p = 0]
                ELSE [th[t] EXCEPT !.pc = "sp_check", !.at = "pulse"]]
    /\ UNCHANGED <<hw, glock, latched, mk>>

\* a finalisation that records the cycle as failed
TCleaningFinal_RecordsFailure(t) ==
    /\ Threaded /\ Maker
    /\ th[t].pc = "cl_final"
    /\ IF mk.stop_requested
       THEN /\ mk' = mk
            /\ th' = [th EXCEPT ![t].pc = "cl_reset", ![t].tmp = 0]
       ELSE /\ mk' = AddCleaningRecord(
                         [mk EXCEPT !.progress = 100,
                                    !.since = CounterAfter(mk, th[t].mode)],
                         ModeValue(th[t].mode), FALSE)
            /\ th' = [th EXCEPT ![t].pc = "cl_reset", ![t].tmp = 1,
                                ![t].events = Append(@, 100)]
    /\ UNCHANGED <<hw, glock, latched>>

\* lines 347-367: without a stop request progress 100 is notified and the
\* cycle is recorded in the history; tmp holds the result
TCleaningFinal(t) ==
    /\ Threaded /\ Maker
    /\ th[t].pc = "cl_final"
    /\ IF mk.stop_requested
       THEN /\ mk' = mk
            /\ th' = [th EXCEPT ![t].pc = "cl_reset", ![t].tmp = 0]
       ELSE /\ mk' = AddCleaningRecord(
                         [mk EXCEPT !.progress = 100,
                                    !.since = CounterAfter(mk, th[t].mode)],
                         ModeValue(th[t].mode), TRUE)
            /\ th' = [th EXCEPT ![t].pc = "cl_reset", ![t].tmp = 1,
                                ![t].events = Append(@, 100)]
    /\ UNCHANGED <<hw, glock, latched>>

\* lines 369-375: the status is cleared and start_cleaning returns out of the
\* with block
TCleaningReset(t) ==
    /\ Threaded /\ Maker
    /\ th[t].pc = "cl_reset"
    /\ mk' = [mk EXCEPT !.is_running = FALSE, !.current_mode = "none",
                        !.current_phase = "none", !.progress = 0, !.clock = 0]
    /\ th' = [th EXCEPT ![t] = Returned(t, Bool(th[t].tmp = 1))]
    /\ UNCHANGED <<hw, glock, latched>>

\* lines 377-383: the handler clears is_running and calls emergency_stop
TCleaningExcept(t) ==
    /\ Threaded /\ Maker
    /\ th[t].pc = "cl_except"
    /\ mk' = [mk EXCEPT !.is_running = FALSE]
    /\ th' = [th EXCEPT ![t].pc = "es_flag"]
    /\ UNCHANGED <<hw, glock, latched>>

\* a thread calls stop_cleaning: line 488 reads is_running
TCallStopCleaning(t) ==
    /\ Threaded /\ Maker
    /\ th[t].pc = "idle"
    /\ th' = [th EXCEPT ![t] =
                IF mk.is_running
                THEN [Thread0 EXCEPT !.op = "stop_cleaning", !.pc = "sc_request"]
                ELSE [Thread0 EXCEPT !.op = "stop_cleaning"]]
    /\ UNCHANGED <<hw, glock, latched, mk>>

\* stop_cleaning, lines 490-493: _stop_requested = True, then emergency_stop.
\* The field stop of the thread that is inside start_cleaning records that a
\* stop was requested during its call
TStopCleaningRequest(t) ==
    /\ Threaded /\ Maker
    /\ th[t].pc = "sc_request"
    /\ mk' = [mk EXCEPT !.stop_requested = TRUE]
    /\ th' = [u \in AllThreads |->
                IF u = t THEN [th[t] EXCEPT !.pc = "es_flag"]
                ELSE IF u = mk.clock THEN [th[u] EXCEPT !.stop = "yes"]
                ELSE th[u]]
    /\ UNCHANGED <<hw, glock, latched>>

\* a thread calls on_cocktail_made (lines 522-535): the counter is incremented
\* and, from quick_cleaning_interval on, a thread is started that runs
\* start_cleaning(CleaningMode.QUICK)
TCallOnCocktailMade(t) ==
    /\ Threaded /\ Maker
    /\ th[t].pc = "idle"
    /\ mk.since < MaxCocktails
    /\ mk' = [mk EXCEPT !.since = @ + 1]
    /\ IF mk.since + 1 >= QuickCleaningInterval
       THEN /\ th[Spawned].pc = "idle"
            /\ Len(mk.history) < MaxCycles
            /\ th' = [th EXCEPT ![t] = [Thread0 EXCEPT !.op = "on_cocktail_made"],
                                ![Spawned] = [Thread0 EXCEPT !.op = "start_cleaning",
                                                              !.mode = "QUICK",
                                                              !.v = AllPumps,
                                                              !.pc = "cl_lock"]]
       ELSE th' = [th EXCEPT ![t] = [Thread0 EXCEPT !.op = "on_cocktail_made"]]
    /\ UNCHANGED <<hw, glock, latched>>

\* a thread runs main.check_maintenance (main.py 196-216): when the scheduler
\* recommends a quick cleaning and preparation_status is not "preparing" it
\* awaits start_cleaning("quick")
TCallCheckMaintenance(t) ==
    /\ Threaded /\ Maker
    /\ th[t].pc = "idle"
    /\ th' = [th EXCEPT ![t] =
                IF mk.since >= QuickCleaningInterval /\ mk.status # "preparing"
                THEN [Thread0 EXCEPT !.op = "check_maintenance", !.mode = "quick",
                                     !.v = AllPumps,
                                     !.pc = "cl_lock"]
                ELSE [Thread0 EXCEPT !.op = "check_maintenance"]]
    /\ UNCHANGED <<hw, glock, latched, mk>>

\* what thread t does next inside a cleaning cycle
StepCycle(t) ==
    \/ TCleaningEnter(t) \/ TCleaningMark(t) \/ TCleaningClear(t) \/ TCleaningPhase(t)
    \/ TCleaningWhile(t) \/ TCleaningFor(t) \/ TCleaningFinal(t) \/ TCleaningReset(t)

\* what thread t does next inside a cleaning call
StepCleaning(t) == StepCycle(t) \/ TCleaningExcept(t) \/ TStopCleaningRequest(t)

\* what thread t does next inside start_pump, stop_pump or emergency_stop
StepPump(t) ==
    \/ TEmergencyFlag(t) \/ TEmergencyLock(t) \/ TEmergencyStopAll(t)
    \/ TStartCheck(t) \/ TStartSet(t) \/ TStartMark(t)
    \/ TStopSet(t) \/ TStopMark(t)

\* the cocktails ordered while the cleaning system is in use: one with
\* nothing to pour and one that pours
MakerRecipeIds == {1, 2}

\* the thread that prepares and stops a cleaning, and the thread that cleans
\* and stops a preparation
PrepareThread == 1
CleaningThread == 2

NextMaker ==
    \/ TInitialize
    \/ TCallPrepareOf(PrepareThread, MakerRecipeIds)
    \/ TCallStopPreparation(CleaningThread)
    \/ TCallStartCleaning(CleaningThread)
    \/ TCallStopCleaning(PrepareThread)
    \/ \E t \in Threads : StepPrepare(t)
    \/ \E t \in Threads : StepCleaning(t)

SpecMaker == InitMaker /\ [][NextMaker]_vars

NextCleaning ==
    \/ \E t \in Threads : TCallStartCleaning(t)
    \/ \E t \in Threads : TCallStopCleaning(t)
    \/ \E t \in Threads : TResetEmergencyStop(t)
    \/ \E t \in Threads : StepCleaning(t)
    \/ \E t \in Threads : StepPump(t)

SpecCleaning == InitMaker /\ [][NextCleaning]_vars

\* the task that runs start_cleaning is cancelled while it is suspended in
\* 'await asyncio.sleep(0.5)' of _liquid_phase (line 458) with its pump
\* running: CancelledError is a BaseException, which neither
\* 'except Exception' of pump_operation (tb6612_controller.py 503) nor that
\* of start_cleaning (line 377) catches; it leaves the with blocks, which
\* releases _cleaning_lock, and start_cleaning raises it to its caller
TCleaningCancelled(t) ==
    /\ Threaded /\ Maker
    /\ th[t].pc = "cl_sleep"
    /\ th[t].op \in {"start_cleaning", "check_maintenance"}
    /\ mk' = [mk EXCEPT !.clock = 0]
    /\ th' = [th EXCEPT ![t] = Returned(t, "raised")]
    /\ UNCHANGED <<hw, glock, latched>>

(***************************************************************************)
(* SpecCancel: SpecCleaning with tasks that may be cancelled.              *)
(***************************************************************************)
NextCancel ==
    \/ NextCleaning
    \/ \E t \in Threads : TCleaningCancelled(t)

SpecCancel == InitMaker /\ [][NextCancel]_vars

\* the counter of cocktails: one thread runs cleaning cycles of every mode,
\* the other one counts cocktails below quick_cleaning_interval (the cleaning
\* that on_cocktail_made starts at the interval is run in SpecAuto) and stops
\* cycles
NextCounter ==
    \/ TCallStartCleaningOf(CleaningThread, CounterModes, PumpCountInputs)
    \/ TCallStopCleaning(PrepareThread)
    \/ (mk.since + 1 < QuickCleaningInterval /\ TCallOnCocktailMade(PrepareThread))
    \/ \E t \in Threads : StepCleaning(t)
    \/ \E t \in Threads : TCleaningDry(t)
    \/ \E t \in Threads : StepPump(t)

SpecCounter == InitMaker /\ [][NextCounter]_vars

\* what thread t does next inside the prepare_cocktail of a recipe that pours,
\* apart from its pump calls
StepPreparing(t) ==
    \/ TPrepareEnter(t) \/ TPrepareOrder(t) \/ TPrepareStatus(t) \/ TPreparePumps(t)
    \/ TPrepareLoop(t) \/ TPrepareError(t)
    \/ TPrepareFinally(t) \/ TPrepareResetStatus(t) \/ TPrepareResetOrder(t)
    \/ TPourRead(t) \/ TPourWrite(t)

\* the cocktail ordered while the maintenance runs: one pour
AutoRecipeIds == {4}

NextAuto ==
    \/ TCallPrepareOf(PrepareThread, AutoRecipeIds)
    \/ TCallOnCocktailMade(CleaningThread)
    \/ TCallCheckMaintenance(CleaningThread)
    \/ \E t \in AllThreads : StepPreparing(t)
    \/ \E t \in AllThreads : StepCycle(t)
    \/ \E t \in AllThreads : TCleaningExcept(t)
    \/ \E t \in AllThreads : StepPump(t)

SpecAuto == InitMaker /\ [][NextAuto]_vars

\* one operation at a time: a single thread prepares cocktails and runs
\* cleaning cycles of every mode over the first pumps or over all of them,
\* and resets the emergency stop in between; nothing else runs
SinglePumpCounts == {2, AllPumps}

NextSingle ==
    \/ TInitialize
    \/ TCallPrepareOf(PrepareThread, MakerRecipeIds)
    \/ TCallStartCleaningOf(PrepareThread, CounterModes, SinglePumpCounts)
    \/ TResetEmergencyStop(PrepareThread)
    \/ StepPreparing(PrepareThread)
    \/ TPrepareComplete(PrepareThread)
    \/ StepCycle(PrepareThread)
    \/ TCleaningDry(PrepareThread)
    \/ TCleaningExcept(PrepareThread)
    \/ StepPump(PrepareThread)

SpecSingle == InitMaker /\ [][NextSingle]_vars

(***************************************************************************)
(* SpecPort: tipsy, one client, seen at the GPIO port.  A call of the pump *)
(* manager is the sequence of its writes in program order: the GPIO and    *)
(* PWM primitives (in1, in2, duty, stby) and, between them, the            *)
(* assignments to the attributes of the controllers and of the manager.    *)
(* With one client the tests a call makes (is_initialized, standby_active, *)
(* pwm_a) read what the call found or wrote itself, so the sequence is     *)
(* known when the call begins.  A write is [k, c, ch, v]: kind,            *)
(* controller, channel, value.                                             *)
(***************************************************************************)
Wr(k, c, ch, v) == [k |-> k, c |-> c, ch |-> ch, v |-> v]

\* the effect of one write on the world
ApplyWrite(w, x) ==
    IF x.k = "in1" THEN [w EXCEPT !.pins[x.c][x.ch] = <<x.v, @[2]>>]
    ELSE IF x.k = "in2" THEN [w EXCEPT !.pins[x.c][x.ch] = <<@[1], x.v>>]
    ELSE IF x.k = "duty" THEN [w EXCEPT !.duty[x.ch] = x.v]
    ELSE IF x.k = "stby" THEN [w EXCEPT !.stby = x.v]
    ELSE IF x.k = "status"
         THEN [w EXCEPT !.motor[x.c][x.ch].is_running = (x.v > 0),
                        !.motor[x.c][x.ch].direction = IF x.v > 0 THEN "forward" ELSE "stopped",
                        !.motor[x.c][x.ch].speed_percent = x.v]
    ELSE IF x.k = "standby" THEN [w EXCEPT !.standby[x.c] = (x.v = 1)]
    ELSE IF x.k = "pwm" THEN [w EXCEPT !.pwm[x.c] = TRUE]
    ELSE IF x.k = "c_init" THEN [w EXCEPT !.c_init[x.c] = (x.v = 1)]
    ELSE IF x.k = "pm_init" THEN [w EXCEPT !.pm_init = (x.v = 1)]
    ELSE IF x.k = "flag" THEN [w EXCEPT !.flag = (x.v = 1)]
    ELSE IF x.k = "started" THEN [w EXCEPT !.motor[x.c][x.ch].last_started = (x.v = 1)]
    ELSE IF x.k = "credit" THEN [w EXCEPT !.motor[x.c][x.ch].volume_dispensed = @ + x.v]
    ELSE w

RECURSIVE ApplyAll(_, _)
ApplyAll(w, xs) == IF xs = <<>> THEN w ELSE ApplyAll(ApplyWrite(w, Head(xs)), Tail(xs))

\* the kinds that are calls of GPIO.output, ChangeDutyCycle, start or stop
Primitives == {"in1", "in2", "duty", "stby"}

\* one channel of _stop_all_motors, lines 150-156: the direction pins, then the
\* duty when the PWM object exists, then the status
StopChannelWrites(w, c, ch) ==
    <<Wr("in1", c, ch, 0), Wr("in2", c, ch, 0)>>
    \o (IF w.pwm[c] THEN <<Wr("duty", c, ch, 0)>> ELSE <<>>)
    \o <<Wr("status", c, ch, 0)>>

\* TB6612Controller._stop_all_motors / stop_all
StopAllWrites(w, c) == StopChannelWrites(w, c, "A") \o StopChannelWrites(w, c, "B")

\* TB6612Controller.enable
EnableWrites(c) == <<Wr("stby", c, "A", 1), Wr("standby", c, "A", 0)>>

\* TB6612Controller.disable
DisableWrites(w, c) ==
    StopAllWrites(w, c) \o <<Wr("stby", c, "A", 0), Wr("standby", c, "A", 1)>>

\* TB6612Controller.initialize, lines 105-125
ControllerInitWrites(w, c) ==
    IF w.c_init[c] THEN <<>>
    ELSE <<Wr("in1", c, "A", 0), Wr("in2", c, "A", 0),
           Wr("in1", c, "B", 0), Wr("in2", c, "B", 0),
           Wr("stby", c, "A", 0), Wr("pwm", c, "A", 1),
           Wr("duty", c, "A", 0), Wr("duty", c, "B", 0)>>
         \o EnableWrites(c) \o <<Wr("c_init", c, "A", 1)>>

\* TB6612Controller.cleanup, lines 267-274: _stop_all_motors, pwm_a.stop(),
\* pwm_b.stop(), disable()
ControllerCleanupWrites(w, c) ==
    IF ~w.c_init[c] THEN <<>>
    ELSE StopAllWrites(w, c)
         \o (IF w.pwm[c] THEN <<Wr("duty", c, "A", 0), Wr("duty", c, "B", 0)>> ELSE <<>>)
         \o DisableWrites(w, c) \o <<Wr("c_init", c, "A", 0)>>

\* _set_motor_a / _set_motor_b: the direction pins, the duty, the status
SetMotorWrites(w, c, ch, speed, direction) ==
    LET sp == IF direction \in {"forward", "reverse"} THEN speed ELSE 0
        pn == IF direction = "forward" THEN <<1, 0>>
              ELSE IF direction = "reverse" THEN <<0, 1>> ELSE <<0, 0>>
    IN <<Wr("in1", c, ch, pn[1]), Wr("in2", c, ch, pn[2])>>
       \o (IF w.pwm[c] THEN <<Wr("duty", c, ch, sp)>> ELSE <<>>)
       \o <<Wr("status", c, ch, sp)>>

\* TB6612Controller.set_motor_speed
SetMotorSpeedWrites(w, c, ch, speed, direction) ==
    IF ~w.c_init[c] THEN <<>>
    ELSE (IF w.standby[c] THEN EnableWrites(c) ELSE <<>>)
         \o SetMotorWrites(w, c, ch, ClampSpeed(speed), direction)

\* PumpManager.start_pump
StartPumpWrites(w, p, speed) ==
    IF ~StartPumpOk(w, p) THEN <<>>
    ELSE SetMotorSpeedWrites(w, PumpController(p), PumpChannel(p),
                             AdjustedSpeed(speed), "forward")
         \o <<Wr("started", PumpController(p), PumpChannel(p), 1)>>

\* PumpManager.stop_pump
StopPumpWrites(w, p) ==
    IF ~StopPumpOk(w, p) THEN <<>>
    ELSE SetMotorSpeedWrites(w, PumpController(p), PumpChannel(p), 0, "stopped")
         \o <<Wr("started", PumpController(p), PumpChannel(p), 0)>>

\* PumpManager.pour_volume: start_pump, stop_pump on what start_pump left, and
\* the volume bookkeeping
PourVolumeWrites(w, p, v, speed) ==
    IF p \notin Pumps \/ v <= 0 \/ PourTimeTooLong(p, v) \/ ~StartPumpOk(w, p) THEN <<>>
    ELSE StartPumpWrites(w, p, speed)
         \o StopPumpWrites(ApplyAll(w, StartPumpWrites(w, p, speed)), p)
         \o <<Wr("credit", PumpController(p), PumpChannel(p), v)>>

\* the writes of Op(w, c) for c = from .. NumControllers-1, in dictionary order
RECURSIVE ControllersFrom(_, _)
ControllersFrom(from, n) == IF from >= n THEN <<>> ELSE <<from>> \o ControllersFrom(from + 1, n)
RECURSIVE EmergencyStopAllWrites(_, _)
EmergencyStopAllWrites(w, cs) ==
    IF cs = <<>> THEN <<>>
    ELSE StopAllWrites(w, Head(cs)) \o EmergencyStopAllWrites(w, Tail(cs))
RECURSIVE InitAllWrites(_, _)
InitAllWrites(w, cs) ==
    IF cs = <<>> THEN <<>>
    ELSE ControllerInitWrites(w, Head(cs)) \o InitAllWrites(w, Tail(cs))
RECURSIVE CleanupAllWrites(_, _)
CleanupAllWrites(w, cs) ==
    IF cs = <<>> THEN <<>>
    ELSE ControllerCleanupWrites(w, Head(cs)) \o CleanupAllWrites(w, Tail(cs))

\* PumpManager.emergency_stop
EmergencyStopWrites(w) ==
    <<Wr("flag", 0, "A", 1)>> \o EmergencyStopAllWrites(w, ControllersFrom(0, NumControllers))

\* PumpManager.initialize
ManagerInitializeWrites(w) ==
    IF w.pm_init THEN <<>>
    ELSE InitAllWrites(w, ControllersFrom(0, NumControllers)) \o <<Wr("pm_init", 0, "A", 1)>>

\* PumpManager.cleanup
ManagerCleanupWrites(w) ==
    CleanupAllWrites(w, ControllersFrom(0, NumControllers)) \o <<Wr("pm_init", 0, "A", 0)>>

\* the writes of a call, taken together, are the call as Spec takes it
WritesAgree(w) ==
    /\ ApplyAll(w, ManagerInitializeWrites(w)) = ManagerInitialize(w)
    /\ ApplyAll(w, ManagerCleanupWrites(w)) = ManagerCleanup(w)
    /\ ApplyAll(w, EmergencyStopWrites(w)) = EmergencyStop(w)
    /\ \A p \in PumpIds :
         /\ ApplyAll(w, StopPumpWrites(w, p)) = StopPump(w, p)
         /\ \A speed \in SpeedInputs :
              /\ ApplyAll(w, StartPumpWrites(w, p, speed)) = StartPump(w, p, speed)
              /\ \A v \in VolumeInputs :
                   ApplyAll(w, PourVolumeWrites(w, p, v, speed)) = PourVolume(w, p, v, speed)

InitPort == program = "port" /\ InitWorld
\* pump ids the client passes: channel A of controller 0 and of controller 1
PortPumpIds == {1, 3}
\* volume_ml arguments the client passes
PortVolumeInputs == {1}
Port == program = "port" /\ UNCHANGED <<program, kw, ktask, th, glock, latched, mk>>

\* a call begins when the one before it has returned: its writes are queued
\* and its result, if no primitive raises, is known
PortCall(op, p, v, ret, xs) ==
    /\ Port
    /\ last.writes = <<>>
    /\ hw' = hw
    /\ last' = [Last0 EXCEPT !.op = op, !.p = p, !.v = v, !.ret = ret, !.writes = xs]

\* PumpManager.initialize
PCallInitialize == PortCall("initialize", 0, 0, "True", ManagerInitializeWrites(hw))

\* PumpManager.cleanup
PCallCleanup == PortCall("cleanup", 0, 0, "none", ManagerCleanupWrites(hw))

\* PumpManager.start_pump(p, speed)
PCallStartPump ==
    \E p \in PortPumpIds :
        PortCall("start_pump", p, 0, Bool(StartPumpOk(hw, p)),
                 StartPumpWrites(hw, p, DefaultSpeed))

\* PumpManager.stop_pump(p)
PCallStopPump ==
    \E p \in PortPumpIds :
        PortCall("stop_pump", p, 0, Bool(StopPumpOk(hw, p)), StopPumpWrites(hw, p))

\* PumpManager.pour_volume(p, v, speed)
PCallPourVolume ==
    \E p \in PortPumpIds, v \in PortVolumeInputs :
        /\ TotalVolume(hw) + v <= MaxVolume
        /\ PortCall("pour_volume", p, v, Bool(PourVolumeOk(hw, p, v, DefaultSpeed)),
                    PourVolumeWrites(hw, p, v, DefaultSpeed))

\* PumpManager.emergency_stop()
PCallEmergencyStop == PortCall("emergency_stop", 0, 0, "none", EmergencyStopWrites(hw))

\* PumpManager.reset_emergency_stop()
PCallResetEmergencyStop ==
    PortCall("reset_emergency_stop", 0, 0, "none", <<Wr("flag", 0, "A", 0)>>)

\* the next write of the call in progress
PWrite ==
    /\ Port
    /\ last.writes # <<>>
    /\ hw' = ApplyWrite(hw, Head(last.writes))
    /\ last' = [last EXCEPT !.writes = Tail(@)]

\* the next primitive of a dispense raises: set_motor_speed catches the
\* exception and returns False (lines 197-199), start_pump or stop_pump hand
\* the False on, and pour_volume returns False (lines 413-422)
PRaise ==
    /\ Port
    /\ last.writes # <<>>
    /\ last.op \in {"start_pump", "stop_pump", "pour_volume"}
    /\ Head(last.writes).k \in Primitives
    /\ hw' = hw
    /\ last' = [last EXCEPT !.writes = <<>>, !.ret = "False", !.raised = TRUE]

NextPort ==
    \/ PCallInitialize
    \/ PCallCleanup
    \/ PCallStartPump
    \/ PCallStopPump
    \/ PCallPourVolume
    \/ PCallEmergencyStop
    \/ PCallResetEmergencyStop
    \/ PWrite
    \/ PRaise

SpecPort == InitPort /\ [][NextPort]_vars

(***************************************************************************)
(* SpecHistory: cleaning_system.CleaningHistory, one client that adds      *)
(* records.  A record is its timestamp, mode and success; _save_history    *)
(* writes the list that _load_history reads back at the next start.        *)
(***************************************************************************)
\* cap on the number of records added
MaxRecords == 103

InitHistory == program = "history" /\ InitWorld

\* a client calls add_cleaning_record
HAddCleaningRecord ==
    /\ program = "history"
    /\ mk.stamp < MaxRecords
    /\ mk' = AddCleaningRecord(mk, "quick", TRUE)
    /\ UNCHANGED <<program, hw, last, kw, ktask, th, glock, latched>>

NextHistory == HAddCleaningRecord

SpecHistory == InitHistory /\ [][NextHistory]_vars

(***************************************************************************)
(* SpecController: one client that calls the TB6612Controller objects      *)
(* directly, as tests/test_hardware.py does.  last.p is the controller.    *)
(***************************************************************************)
InitController == program = "controller" /\ InitWorld
\* SpecMotor: the same client holding one controller, with every kind of
\* speed_percent and direction argument
InitMotor == program = "motor" /\ InitWorld
Controller ==
    /\ program \in {"controller", "motor"}
    /\ UNCHANGED <<program, kw, ktask, th, glock, latched, mk>>

\* the controllers the client holds, and the speed_percent and direction
\* arguments of set_motor_speed
CControllers == IF program = "motor" THEN {0} ELSE {0, 1}
\* below 0, 0, below min_duty_cycle, min_duty_cycle, between, 100, above 100
MotorSpeedInputs == {0 - 10, 0, 10, 30, 60, 100, 150}
CSpeedInputs == IF program = "motor" THEN MotorSpeedInputs ELSE {0, 100}
Directions == {"forward", "reverse", "stopped"}
\* "sideways" is a direction argument that is none of the three
DirectionInputs == IF program = "motor" THEN Directions \cup {"sideways"} ELSE Directions

\* controller.initialize()
CInitialize ==
    /\ Controller
    /\ \E c \in CControllers :
         /\ hw' = ControllerInitialize(hw, c)
         /\ last' = [Last0 EXCEPT !.op = "c_initialize", !.p = c, !.ret = "True"]

\* controller.cleanup()
CCleanup ==
    /\ Controller
    /\ \E c \in CControllers :
         /\ hw' = ControllerCleanup(hw, c)
         /\ last' = [Last0 EXCEPT !.op = "c_cleanup", !.p = c]

\* controller.set_motor_speed(channel, speed_percent, direction)
CSetMotorSpeed ==
    /\ Controller
    /\ \E c \in CControllers, ch \in Channels, speed \in CSpeedInputs, direction \in DirectionInputs :
         /\ hw' = SetMotorSpeed(hw, c, ch, speed, direction)
         /\ last' = [Last0 EXCEPT !.op = "set_motor_speed", !.p = c, !.v = speed,
                                   !.ch = ch, !.dir = direction,
                                   !.ret = Bool(SetMotorSpeedOk(hw, c))]

\* controller.stop_motor(channel): set_motor_speed(channel, 0, 'stopped')
CStopMotor ==
    /\ Controller
    /\ \E c \in CControllers, ch \in Channels :
         /\ hw' = SetMotorSpeed(hw, c, ch, 0, "stopped")
         /\ last' = [Last0 EXCEPT !.op = "stop_motor", !.p = c, !.ch = ch,
                                   !.ret = Bool(SetMotorSpeedOk(hw, c))]

\* pump_manager.emergency_stop() on the controllers
CEmergencyStop ==
    /\ Controller
    /\ hw' = EmergencyStop(hw)
    /\ last' = [Last0 EXCEPT !.op = "emergency_stop"]

\* controller.stop_all()
CStopAll ==
    /\ Controller
    /\ \E c \in CControllers :
         /\ hw.c_init[c]
         /\ hw' = StopAllMotors(hw, c)
         /\ last' = [Last0 EXCEPT !.op = "stop_all", !.p = c]

\* controller.disable() and controller.enable() of an initialized controller
CDisable ==
    /\ Controller
    /\ \E c \in CControllers :
         /\ hw.c_init[c]
         /\ hw' = Disable(hw, c)
         /\ last' = [Last0 EXCEPT !.op = "disable", !.p = c]

CEnable ==
    /\ Controller
    /\ \E c \in CControllers :
         /\ hw.c_init[c]
         /\ hw' = Enable(hw, c)
         /\ last' = [Last0 EXCEPT !.op = "enable", !.p = c]

NextController ==
    \/ CInitialize \/ CCleanup \/ CSetMotorSpeed \/ CStopAll \/ CDisable \/ CEnable
    \/ CStopMotor \/ CEmergencyStop

SpecController == InitController /\ [][NextController]_vars
SpecMotor == InitMotor /\ [][NextController]_vars

(***************************************************************************)
(* SpecConfig: pumps.py, the configuration of the pumps: Pump.calibrate,   *)
(* PumpManager.save_config and the construction of a new PumpManager on    *)
(* the configuration file (a restart).  Factors are in thousandths.        *)
(***************************************************************************)
\* cap on the number of calibrate calls
MaxCalibrations == 3
\* expected_ml and measured_ml arguments: the raw factors are 10, 1 and 0.25
ExpectedInputs == {100}
MeasuredInputs == {0, 10, 100, 400}

\* expected_ml / measured_ml
RawFactor(expected, measured) == (expected * KScale) \div measured

\* Pump.calibrate, lines 304-316: its result, and the factor it leaves
CalibrateOk(expected, measured) == measured > 0
CalibrateFactor(old, expected, measured) ==
    IF ~CalibrateOk(expected, measured) THEN old
    ELSE (old * 7 + RawFactor(expected, measured) * 3) \div 10

\* PumpManager.save_config: the to_dict() of every pump of self.pumps
SaveConfig(k) ==
    [k EXCEPT !.cfg.file = [pumps |-> k.cfg.pumps, calibration |-> k.cfg.calibration]]

\* PumpManager.__init__ on an existing file: load_config takes the 'pumps'
\* object of the file and _initialize_pumps builds a PumpConfig from the
\* pins, the ingredient and the flow rate of each entry; calibration_factor
\* is not passed and gets its default
LoadConfig(k) ==
    [KWorld0 EXCEPT !.cfg = [pumps |-> k.cfg.file.pumps,
                             calibration |-> [p \in KPumps |-> KScale],
                             file |-> k.cfg.file,
                             n |-> k.cfg.n]]

InitConfig == program = "config" /\ InitWorld
Config == program = "config" /\ UNCHANGED <<program, hw, ktask, th, glock, latched, mk>>

\* await pump.calibrate(expected_ml, measured_ml)
GCalibrate ==
    /\ Config
    /\ kw.cfg.n < MaxCalibrations
    /\ \E p \in kw.cfg.pumps, expected \in ExpectedInputs, measured \in MeasuredInputs :
         /\ kw' = [kw EXCEPT !.cfg.calibration[p] = CalibrateFactor(@, expected, measured),
                              !.cfg.n = @ + 1]
         /\ last' = [Last0 EXCEPT !.op = "calibrate", !.p = p, !.v = measured,
                                   !.ret = Bool(CalibrateOk(expected, measured))]

\* manager.save_config()
GSaveConfig ==
    /\ Config
    /\ kw' = SaveConfig(kw)
    /\ last' = [Last0 EXCEPT !.op = "save_config"]

\* the program is started again: PumpManager(config_path)
GRestart ==
    /\ Config
    /\ kw' = LoadConfig(kw)
    /\ last' = [Last0 EXCEPT !.op = "restart"]

NextConfig == GCalibrate \/ GSaveConfig \/ GRestart

SpecConfig == InitConfig /\ [][NextConfig]_vars

(***************************************************************************)
(* Claims checked under Spec.                                              *)
(***************************************************************************)
ChannelStopped(w, c, ch) ==
    /\ ~w.motor[c][ch].is_running
    /\ w.pins[c][ch] = <<0, 0>>
    /\ w.duty[ch] = 0

AllStopped(w) == \A c \in Controllers, ch \in Channels : ChannelStopped(w, c, ch)

\* C1: when PumpManager.emergency_stop() returns, every motor channel of every
\* controller is stopped: is_running is false, both direction pins are low and
\* the PWM duty is 0, whatever was running before the call.
C1_EmergencyStopStopsAll == last.op = "emergency_stop" => AllStopped(hw)

\* C1 witness: emergency_stop has returned and a pump was running when it was called
C1_Witness == last.op = "emergency_stop" /\ last.ran /\ AllStopped(hw)

\* C3: while the emergency-stop flag is set, every start_pump, every pour_volume
\* with a positive volume and every pour_ingredient call returns failure and
\* leaves the running state, direction pins and duty of every motor unchanged.
C3_RefusedWhileStopped ==
    [][/\ ( /\ program = "tipsy"
            /\ hw.flag
            /\ \/ last'.op = "start_pump"
               \/ last'.op = "pour_volume" /\ last'.v > 0 )
          => /\ last'.ret = "False"
             /\ hw'.motor = hw.motor /\ hw'.pins = hw.pins /\ hw'.duty = hw.duty
       /\ \A t \in KTasks :
            ( /\ program = "kivy"
              /\ kw.flag
              /\ ktask[t].pc = "pour_ingredient"
              /\ ktask'[t].pc # "pour_ingredient" )
            => /\ ktask'[t].ret = "False"
               /\ kw'.pump = kw.pump]_vars

\* C3 witness: with the flag set, a start_pump on an existing pump of an
\* initialized controller has been refused
C3_Witness ==
    /\ hw.flag /\ hw.pm_init
    /\ last.op = "start_pump" /\ last.p \in Pumps /\ last.ret = "False"

\* C5: once set, the emergency-stop flag stays set across every other
\* operation; only reset_emergency_stop / reset_emergency clears it.
C5_OnlyResetClearsFlag ==
    [][/\ (hw.flag /\ ~hw'.flag) => last'.op = "reset_emergency_stop"
       /\ (kw.flag /\ ~kw'.flag) => (kw' = KResetEmergency(kw) /\ ktask' = ktask)]_vars

\* C5 witness: the flag is still set after a cleanup followed by a re-initialize
C5_Witness == hw.flag /\ last.op = "initialize" /\ hw.pm_init /\ hw.stby = 1

\* C6: reset_emergency / reset_emergency_stop clears the flag only if every
\* pump is idle (not running) at the instant of the call.
C6_ResetOnlyWhenQuiesced ==
    [][/\ (hw.flag /\ ~hw'.flag) => \A p \in Pumps : ~IsRunning(hw, p)
       /\ (kw.flag /\ ~kw'.flag) => \A p \in KPumps : kw.pump[p].status = "idle"]_vars

(***************************************************************************)
(* Claims checked under SpecThreads.                                       *)
(***************************************************************************)
\* C2: from the moment emergency_stop() has returned until
\* reset_emergency_stop() is called no pump is running, under every
\* interleaving with start_pump / pour_volume calls of other threads,
\* including calls already in progress when emergency_stop was invoked.
C2_LatchedNoPumpRuns == latched => \A p \in Pumps : ~IsRunning(hw, p)

\* C4: a pour_volume during whose wait emergency_stop was invoked returns
\* failure and has not credited volume_dispensed with the requested volume.
C4_InterruptedPourFails ==
    \A t \in Threads :
        (th[t].op = "pour_volume" /\ th[t].pc = "idle" /\ th[t].hit)
            => (th[t].ret = "False" /\ ~th[t].credited)

(***************************************************************************)
(* Claims checked under SpecPrepare.                                       *)
(***************************************************************************)
\* thread t is in a prepare_cocktail call that was refused
\* for a cocktail that exists and is makeable, so because of the status
Rejected(t) ==
    /\ th[t].op = "prepare_cocktail" /\ ~th[t].took
    /\ th[t].pc \in {"pc_finally", "pc_reset_status", "pc_reset_order"}
    /\ KnownRecipe(th[t].rid) /\ IsMakeable(th[t].rid)

\* C8: while one prepare_cocktail is preparing, every other prepare_cocktail
\* call returns failure without starting a pump, and preparation_status and
\* current_order stay those of the running preparation: no step of a
\* rejected call changes them.
C8_RejectedCallChangesNothing ==
    [][\A t, u \in Threads :
          ( /\ t # u
            /\ Preparing(u) /\ mk.plock = u /\ mk.status = "preparing"
            /\ Rejected(t)
            /\ th'[t] # th[t] )
          => /\ mk'.status = mk.status
             /\ mk'.order = mk.order
             /\ hw'.motor = hw.motor
             /\ th'[t].pc = "idle" => th'[t].ret = "False"]_vars

C10_StoppedPreparationFails ==
    [][\A u \in Threads :
          /\ th[u].stop = "returned" => ~(th[u].pc = "sp_set" /\ th'[u].pc = "sp_mark")
          /\ ( /\ th'[u].op = "prepare_cocktail" /\ th'[u].stop = "returned"
               /\ th'[u].pc = "idle" )
             => th'[u].ret = "False"]_vars

(***************************************************************************)
(* Claims checked under SpecMaker.                                         *)
(***************************************************************************)
\* C7: a preparation and a cleaning cycle are never in progress together:
\* preparation_status = 'preparing' and CleaningStatus.is_running never hold
\* at the same time.
C7_PreparationOrCleaning == ~(mk.status = "preparing" /\ mk.is_running)

(***************************************************************************)
(* Claims checked under SpecPrepare: the pours of a preparation.           *)
(***************************************************************************)
\* C11: the pumps of a recipe are driven in the order of a stable sort of its
\* non-garnish ingredients by category rank, and never for a garnish: every
\* pump a preparation starts is that of the next ingredient of the sorted
\* list, which is no garnish, and when its pour has returned success and no
\* emergency stop was requested the preparation goes on to the ingredient
\* after it.
C11_PoursInSortedOrder ==
    [][\A t \in Threads :
        /\ (th[t].op = "prepare_cocktail" /\ th[t].pc = "sp_set" /\ th'[t].pc = "sp_mark")
              => /\ th[t].i = NextPour(th[t].rid, 1)
                 /\ SortedIngredients(th[t].rid)[th[t].i].category # "garnish"
                 /\ SortedIngredients(th[t].rid)[th[t].i].pump_id = th[t].p
        /\ (th[t].op = "prepare_cocktail" /\ th[t].pc = "pv_write" /\ th'[t].pc # "pv_write"
              /\ ~hw.flag)
              => (th'[t].pc = "pc_loop" /\ th'[t].i = th[t].i + 1)]_vars

\* the pours of thread t's preparation that returned True: the loop reaches
\* position i only after the pours before it succeeded
Succeeded(t) == StepsBefore(th[t].rid, th[t].i) + (IF th[t].credited THEN 1 ELSE 0)
\* the ingredients of the recipe the loop pours
PourCount(rid) == StepsBefore(rid, Len(Recipes[rid]) + 1)

\* C12: within one preparation the progress values never decrease; progress
\* 100 is emitted exactly when every pour of the recipe succeeded, it is the
\* last event, and the call then returns success.
C12_ProgressReportsCompletion ==
    \A t \in Threads :
        LET ev == th[t].events
        IN /\ \A j, k \in 1 .. Len(ev) : j < k => (ev[j] <= ev[k] /\ ev[j] # 100)
           /\ (th[t].op = "prepare_cocktail" /\ th[t].took /\ th[t].pc = "pc_finally")
                 => /\ (ev[Len(ev)] = 100) <=> (Succeeded(t) = PourCount(th[t].rid))
                    /\ (ev[Len(ev)] = 100) => th[t].ret = "True"

\* C13: prepare_cocktail of a recipe with a non-garnish ingredient that
\* resolves to no pump returns failure, and no step of the call changes
\* preparation_status, current_order, the emergency-stop flag, a pin or a
\* pump's state.
C13_UnmakeableChangesNothing ==
    [][\A t \in Threads :
        (/\ th[t].op = "prepare_cocktail" /\ th[t].pc # "idle"
         /\ KnownRecipe(th[t].rid) /\ ~IsMakeable(th[t].rid)
         /\ th'[t] # th[t])
        => /\ mk'.status = mk.status /\ mk'.order = mk.order
           /\ hw' = hw
           /\ th'[t].pc = "idle" => th'[t].ret = "False"]_vars

(***************************************************************************)
(* Claims checked under Spec: the preconditions and the result of a pour.  *)
(***************************************************************************)
\* C17: pour_volume starts the pump exactly when volume_ml / flow rate is at
\* most max_pour_time: with the pump manager ready, a volume that takes 60 s
\* or less is dispensed and credited, a larger one returns failure and changes
\* nothing; pumps.py starts a pump only for such a volume.
C17_PourTimeLimit ==
    [][/\ (/\ program = "tipsy" /\ last'.op = "pour_volume"
           /\ last'.p \in Pumps /\ last'.v > 0
           /\ hw.pm_init /\ ~hw.flag)
          => IF last'.v * 10 <= MaxPourTime * FlowRateTenths(last'.p)
             THEN /\ last'.ret = "True"
                  /\ VolumeOf(hw', last'.p) = VolumeOf(hw, last'.p) + last'.v
             ELSE last'.ret = "False" /\ hw' = hw
       /\ \A t \in KTasks :
            (ktask[t].pc # "sleeping" /\ ktask'[t].pc = "sleeping")
               => ktask'[t].v * 10 <= MaxPourTime * KFlowRateTenths]_vars

\* C18: a dispense request with volume_ml <= 0 returns failure and starts no
\* pump.
C18_NonPositiveVolumeRejected ==
    /\ (last.op = "pour_volume" /\ last.v <= 0) => last.ret = "False"
    /\ \A t \in KTasks :
         ktask[t].v <= 0
            => /\ ktask[t].pc # "sleeping"
               /\ (ktask[t].pc = "idle" /\ ktask[t].via # "none") => ktask[t].ret = "False"

C15_IdlePumpPinsLow ==
    \A q \in Pumps :
        ~IsRunning(hw, q)
           => /\ hw.pins[PumpController(q)][PumpChannel(q)] = <<0, 0>>
              /\ hw.duty[PumpChannel(q)] = 0

(***************************************************************************)
(* Claims checked under SpecPort.                                          *)
(***************************************************************************)
\* C14: if any pump channel is running, the STBY pin that enables its chip
\* is high; no disable or cleanup of one controller drives the shared pin low
\* while a channel of another controller is still running.
C14_RunningImpliesStbyHigh ==
    \A q \in Pumps : IsRunning(hw, q) => hw.stby = 1

\* C16: whenever a running channel is stopped, its PWM duty is written to 0
\* before its direction pins are changed: a direction pin of a running
\* channel goes low only when the duty on the channel's PWM pin is 0.
C16_DutyZeroBeforePins ==
    [][\A q \in Pumps :
        LET c == PumpController(q)
            ch == PumpChannel(q)
        IN (IsRunning(hw, q) /\ hw.pins[c][ch] # <<0, 0>> /\ hw'.pins[c][ch] # hw.pins[c][ch])
              => hw.duty[ch] = 0]_vars

\* C20: when a GPIO or PWM primitive fails in a dispense, the dispense
\* returns failure and leaves the channel stopped, direction pins low and
\* duty 0, and the next dispenses on that pump are refused.
C20_FaultLeavesPumpStopped ==
    [][(last.raised /\ last.writes = <<>> /\ last.p \in Pumps)
       => /\ last.ret = "False"
          /\ hw.pins[PumpController(last.p)][PumpChannel(last.p)] = <<0, 0>>
          /\ hw.duty[PumpChannel(last.p)] = 0
          /\ (last'.op \in {"start_pump", "pour_volume"} /\ last'.p = last.p /\ last'.v # 0)
                => (last'.ret = "False" /\ last'.writes = <<>>)]_vars

(***************************************************************************)
(* Claims checked under SpecHistory.                                       *)
(***************************************************************************)
\* C24: after any sequence of add_cleaning_record calls the history holds at
\* most 100 records, and they are the most recently added ones in the order
\* they were added: after n calls it is the records n - Len .. n - 1.
C24_HistoryKeepsLatest ==
    /\ Len(mk.history) = Min2(mk.stamp, HistoryLimit)
    /\ \A j \in 1..Len(mk.history) :
         mk.history[j].timestamp = mk.stamp - Len(mk.history) + j - 1

\* more than 100 records were added and the oldest are gone
C24_Witness ==
    /\ mk.stamp > HistoryLimit
    /\ Len(mk.history) = HistoryLimit
    /\ mk.history[1].timestamp = mk.stamp - HistoryLimit

(***************************************************************************)
(* Claims checked under SpecController.                                    *)
(***************************************************************************)
\* both motors of controller c are stopped in world w
MotorsStopped(w, c) ==
    \A ch \in Channels :
        /\ w.pins[c][ch] = <<0, 0>>
        /\ ~w.motor[c][ch].is_running
        /\ w.motor[c][ch].speed_percent = 0

\* C29: a controller that is not initialized has standby active, as a newly
\* constructed one; initialize() of such a controller returns success and
\* leaves it initialized, STBY high with standby_active false, its four
\* direction pins low and both PWM duties 0; initialize() of an initialized
\* controller returns success and changes no pin and no motor state.
C29_InitializeEnables ==
    [][(program = "controller" /\ last'.op = "c_initialize") =>
         LET c == last'.p IN
         /\ last'.ret = "True"
         /\ ~hw.c_init[c] => hw.standby[c]
         /\ IF hw.c_init[c]
            THEN hw' = hw
            ELSE /\ hw'.c_init[c] /\ hw'.stby = 1 /\ ~hw'.standby[c]
                 /\ \A ch \in Channels : hw'.pins[c][ch] = <<0, 0>> /\ hw'.duty[ch] = 0]_vars

\* initialize() was called again on a controller with a motor running
C29_Witness ==
    /\ program = "controller" /\ last.op = "c_initialize"
    /\ hw.c_init[last.p] /\ hw.stby = 1
    /\ \E ch \in Channels : hw.motor[last.p][ch].is_running

\* C30: cleanup() of an initialized controller leaves both motors stopped,
\* STBY low and is_initialized false; cleanup() of a controller that is not
\* initialized changes no pin and no state; initialize() right after a
\* cleanup() of the same controller leaves it initialized, standby released
\* and both motors stopped.
C30_CleanupIdempotent ==
    [][/\ (program = "controller" /\ last'.op = "c_cleanup") =>
           LET c == last'.p IN
           IF hw.c_init[c]
           THEN /\ ~hw'.c_init[c] /\ hw'.stby = 0 /\ hw'.standby[c]
                /\ MotorsStopped(hw', c)
           ELSE hw' = hw
       /\ (program = "controller" /\ last.op = "c_cleanup"
             /\ last'.op = "c_initialize" /\ last'.p = last.p) =>
           LET c == last'.p IN
           /\ hw'.c_init[c] /\ hw'.stby = 1 /\ ~hw'.standby[c]
           /\ MotorsStopped(hw', c)]_vars

\* a controller that had been initialized was cleaned up while a motor of
\* the other controller was running
C30_Witness ==
    /\ program = "controller" /\ last.op = "c_cleanup"
    /\ ~hw.c_init[last.p] /\ hw.pwm[last.p] /\ hw.stby = 0
    /\ MotorsStopped(hw, last.p)
    /\ \E c \in Controllers : c # last.p /\ hw.c_init[c] /\ hw.motor[c]["A"].is_running

(***************************************************************************)
(* Claims checked under SpecConfig.                                        *)
(***************************************************************************)
\* C27: after a calibrate call the calibration_factor of the pump lies in
\* [0.5, 2.0], and a call with measured_ml <= 0 or with a raw factor
\* expected_ml / measured_ml outside [0.5, 2.0] returns failure and leaves the
\* factor unchanged.
C27_CalibrationBounded ==
    [][(program = "config" /\ last'.op = "calibrate") =>
         LET p == last'.p
             measured == last'.v
         IN /\ kw'.cfg.calibration[p] >= KScale \div 2
            /\ kw'.cfg.calibration[p] <= 2 * KScale
            /\ \A expected \in ExpectedInputs :
                 (\/ measured <= 0
                  \/ RawFactor(expected, measured) < KScale \div 2
                  \/ RawFactor(expected, measured) > 2 * KScale)
                 => (last'.ret = "False"
                     /\ kw'.cfg.calibration[p] = kw.cfg.calibration[p])]_vars

\* C28: a PumpManager constructed on the file that save_config wrote, or on
\* the file the first start wrote, has the same pumps with the same
\* calibration factors (pins, ingredients and flow rates are those of the
\* file entry of each pump).
C28_ConfigSurvivesRestart ==
    [][(program = "config" /\ last.op \in {"none", "save_config"} /\ last'.op = "restart") =>
         /\ kw'.cfg.pumps = kw.cfg.pumps
         /\ \A p \in kw.cfg.pumps : kw'.cfg.calibration[p] = kw.cfg.calibration[p]]_vars

(***************************************************************************)
(* Claims checked under SpecCleaning.                                      *)
(***************************************************************************)
\* the calls that run start_cleaning, and where a thread is between taking
\* _cleaning_lock and leaving the with block
CycleOps == {"start_cleaning", "check_maintenance"}
CyclePcs ==
    {"cl_mark", "cl_clear", "cl_phase", "cl_while", "cl_for", "cl_dry", "cl_final",
     "cl_reset", "sp_check", "sp_set", "sp_mark", "cl_sleep", "st_mark"}
InCycle(t) == th[t].op \in CycleOps /\ th[t].pc \in CyclePcs

\* C21: at most one cleaning cycle is in progress at any instant, and a step
\* of a start_cleaning call made by another thread while a cycle is in
\* progress leaves the cycle's mode, phase, progress, pump list and stop
\* request as they are.
C21_OneCycleAtATime ==
    [][/\ \A t, u \in AllThreads : (InCycle(t) /\ InCycle(u)) => t = u
       /\ \A c, t \in AllThreads :
            (InCycle(c) /\ t # c /\ th[t].op \in CycleOps /\ th'[t] # th[t])
            => /\ mk'.current_mode = mk.current_mode
               /\ mk'.current_phase = mk.current_phase
               /\ mk'.progress = mk.progress
               /\ mk'.pumps = mk.pumps
               /\ mk'.stop_requested = mk.stop_requested
               /\ mk'.is_running = mk.is_running
               /\ ~InCycle(t)']_vars

\* a start_cleaning call of another thread waits for _cleaning_lock while a
\* cycle is in its second phase and has notified progress
C21_Witness ==
    \E c, t \in Threads :
        /\ InCycle(c) /\ mk.clock = c /\ mk.is_running
        /\ mk.current_phase = "clean" /\ mk.progress > 0
        /\ t # c /\ th[t].op = "start_cleaning" /\ th[t].pc = "cl_lock"
        /\ th[t].mode = "QUICK"

\* C22: once stop_cleaning has requested the stop of a running cycle, the
\* cycle enters no further phase and starts no further pump, its
\* start_cleaning returns False and appends no history record; and when
\* stop_cleaning has returned every pump is stopped.
C22_StoppedCycleEnds ==
    [][\A t \in AllThreads :
         /\ (th[t].op \in CycleOps /\ th[t].stop = "yes" /\ th'[t].stop = "yes") =>
              /\ ~(th[t].pc = "cl_phase" /\ th'[t].pc \in {"sp_check", "cl_while"})
              /\ ~(th[t].pc = "sp_set" /\ th'[t].pc = "sp_mark")
              /\ mk'.history = mk.history
              /\ (th[t].pc # "idle" /\ th'[t].pc = "idle") => th'[t].ret = "False"
         /\ (th[t].op = "stop_cleaning" /\ th[t].pc # "idle" /\ th'[t].pc = "idle"
               /\ th'[t].op = "stop_cleaning")
              => \A q \in Pumps : ~IsRunning(hw', q)]_vars

\* C23: a cycle whose phases all ran and during which no stop was requested
\* notifies progress 100 last, appends one record with success true and the
\* mode of the cycle to the history, returns True and leaves is_running false.
C23_CompletedCycleRecorded ==
    [][\A t \in AllThreads :
         /\ (th[t].pc = "cl_final" /\ th[t].stop = "no" /\ th[t].i > Len(Phases(th[t].mode))
               /\ th'[t].pc # "cl_final") =>
              /\ th'[t].pc = "cl_reset"
              /\ th'[t].events # <<>> /\ th'[t].events[Len(th'[t].events)] = 100
              /\ Len(mk'.history) = Len(mk.history) + 1
              /\ mk'.history[Len(mk'.history)].success
              /\ mk'.history[Len(mk'.history)].mode = ModeValue(th[t].mode)
              /\ \A j \in 1..Len(mk.history) : mk'.history[j] = mk.history[j]
         /\ (th[t].pc = "cl_reset" /\ th'[t].pc # "cl_reset") =>
              /\ mk'.history = mk.history
              /\ ~mk'.is_running
              /\ th'[t].pc = "idle"
              /\ (th[t].stop = "no" /\ th[t].i > Len(Phases(th[t].mode))) => th'[t].ret = "True"]_vars

\* a cycle that ran both phases has returned True and is in the history
C23_Witness ==
    \E t \in Threads :
        /\ th[t].op = "start_cleaning" /\ th[t].pc = "idle" /\ th[t].ret = "True"
        /\ th[t].stop = "no"
        /\ Len(mk.history) = 1 /\ mk.history[1].success /\ mk.history[1].mode = "quick"
        /\ ~mk.is_running

\* C25: every progress value notified while the i-th of the n phases runs
\* (i from 0) lies in [100*i/n, 100*(i+1)/n], and the values notified during
\* a cycle never decrease.
C25_ProgressWithinPhase ==
    [][\A t \in AllThreads :
         (th[t].pc = "cl_while" /\ th'[t].pc = "cl_for") =>
           LET n == Len(Phases(th[t].mode))
               i == th[t].i - 1
           IN /\ mk'.progress * n >= 100 * i
              /\ mk'.progress * n <= 100 * (i + 1)
              /\ mk'.progress >= mk.progress
              /\ mk'.progress >= 0 /\ mk'.progress <= 100]_vars

(***************************************************************************)
(* Claims checked under SpecAuto.                                          *)
(***************************************************************************)
\* thread t runs a cleaning that on_cocktail_made or check_maintenance started
AutoCleaning(t) ==
    \/ t = Spawned /\ th[t].op = "start_cleaning"
    \/ th[t].op = "check_maintenance"

\* C26: on_cocktail_made adds one to cocktails_since_cleaning and starts a
\* quick cleaning when the counter has reached 5, and a cleaning started by
\* on_cocktail_made or check_maintenance starts no pump while
\* preparation_status is "preparing".
C26_AutoCleaningWaitsForRecipe ==
    [][/\ \A t \in AllThreads :
            (th'[t].op = "on_cocktail_made" /\ th'[t] # th[t]) =>
              /\ mk'.since = mk.since + 1
              /\ (mk'.since >= QuickCleaningInterval)
                   <=> (th[Spawned].pc = "idle" /\ th'[Spawned].pc = "cl_lock"
                         /\ th'[Spawned].mode = "QUICK")
       /\ \A t \in AllThreads :
            (AutoCleaning(t) /\ th[t].pc = "sp_set" /\ th'[t].pc = "sp_mark")
            => mk.status # "preparing"]_vars

(***************************************************************************)
(* Claims C31..C40.                                                        *)
(***************************************************************************)
\* C31 (pumps.py): emergency_stop leaves the status of every pump idle, and
\* an idle pump leaves idle only when a pour_volume starts on it, also when
\* a pour_volume on it was asleep at the time of the stop.
C31_StoppedPumpStaysIdle ==
    [][Kivy =>
        /\ (kw' = KEmergencyStop(kw) /\ ktask' = ktask)
             => \A p \in KPumps : kw'.pump[p].status = "idle"
        /\ \A p \in KPumps :
             (kw.pump[p].status = "idle" /\ kw'.pump[p].status # "idle")
             => /\ kw'.pump[p].status = "pumping"
                /\ \E t \in KTasks : /\ ktask[t].pc # "sleeping"
                                      /\ ktask'[t].pc = "sleeping"
                                      /\ ktask'[t].p = p]_vars

\* C32 (checked under SpecMotor): for each motor channel, after any sequence
\* of set_motor_speed, stop_motor, stop_all, disable and emergency_stop calls
\* with any speed and any direction argument, is_running is true exactly
\* when direction is not 'stopped' and speed_percent is above 0.
C32_RunningIffDirectionAndSpeed ==
    \A c \in Controllers, ch \in Channels :
        hw.motor[c][ch].is_running
        <=> (hw.motor[c][ch].direction # "stopped" /\ hw.motor[c][ch].speed_percent > 0)

\* set_motor_speed with a direction that is none of the three has stopped a
\* channel while the other channel of the controller is running
C32_Witness ==
    /\ program = "motor" /\ last.op = "set_motor_speed" /\ last.ret = "True"
    /\ last.dir = "sideways" /\ last.v = 60
    /\ ~hw.motor[last.p][last.ch].is_running
    /\ hw.motor[last.p][last.ch].direction = "stopped"
    /\ \E ch \in Channels : hw.motor[last.p][ch].is_running /\ hw.motor[last.p][ch].speed_percent = 30

\* C33 (checked under SpecMotor): a set_motor_speed(channel, s, d) that
\* succeeds leaves the duty of the channel 0 when s <= 0 or d is 'stopped',
\* 30 when 0 < s < 30, s when 30 <= s <= 100 and 100 when s > 100, and the
\* direction pins (1, 0) for forward, (0, 1) for reverse, (0, 0) for stopped.
C33_DutyAndPinsOfRequest ==
    [][(program = "motor" /\ last'.op = "set_motor_speed" /\ last'.ret = "True"
         /\ last'.dir \in Directions) =>
        LET s == last'.v
            d == last'.dir
        IN /\ hw'.duty[last'.ch] =
                 IF s <= 0 \/ d = "stopped" THEN 0
                 ELSE IF s < 30 THEN 30
                 ELSE IF s <= 100 THEN s ELSE 100
           /\ hw'.pins[last'.p][last'.ch] =
                 IF d = "forward" THEN <<1, 0>>
                 ELSE IF d = "reverse" THEN <<0, 1>> ELSE <<0, 0>>]_vars

\* a request of 10 in reverse was raised to the minimum duty cycle
C33_Witness ==
    /\ program = "motor" /\ last.op = "set_motor_speed" /\ last.ret = "True"
    /\ last.v = 10 /\ last.dir = "reverse"
    /\ hw.duty[last.ch] = 30 /\ hw.pins[last.p][last.ch] = <<0, 1>>

\* what the controller records of the motor of pump q
Recorded(w, q) ==
    LET m == w.motor[PumpController(q)][PumpChannel(q)]
    IN <<m.is_running, m.direction, m.speed_percent>>

\* C35 (checked under Spec): start_pump and stop_pump on one pump leave the
\* running state, direction and speed recorded for every other pump as they
\* were, so the two pumps of a controller can run together and be stopped
\* one by one.
C35_OtherPumpsUntouched ==
    [][(program = "tipsy" /\ last'.op \in {"start_pump", "stop_pump"}) =>
         \A q \in Pumps : q # last'.p => Recorded(hw', q) = Recorded(hw, q)]_vars

\* one pump of a controller was stopped while the other pump of that
\* controller goes on running
C35_Witness ==
    /\ program = "tipsy" /\ last.op = "stop_pump" /\ last.ret = "True"
    /\ last.p \in Pumps /\ ~IsRunning(hw, last.p)
    /\ \E q \in Pumps : /\ q # last.p
                         /\ PumpController(q) = PumpController(last.p)
                         /\ IsRunning(hw, q)

\* C36 (checked under Spec): between the calls of an initialized
\* PumpManager, the start timestamp last_started of a pump is present
\* exactly when the pump is running.
C36_TimestampIffRunning ==
    (program = "tipsy" /\ hw.pm_init) =>
        \A p \in Pumps :
            hw.motor[PumpController(p)][PumpChannel(p)].last_started <=> IsRunning(hw, p)

(***************************************************************************)
(* Claims checked under SpecCancel.                                        *)
(***************************************************************************)
\* thread t leaves start_cleaning in this step, after having started a cycle
CycleEnds(t) ==
    /\ th[t].op \in CycleOps
    /\ th[t].pc \notin {"idle", "cl_lock"}
    /\ th'[t].pc = "idle"

\* C37: when an exception leaves the body of a pump_operation() block, the
\* emergency-stop flag is set and every motor is stopped by the time the
\* caller sees the exception; a body that ends without an exception leaves
\* the flag as it was.
C37_EscapingExceptionStopsPumps ==
    [][\A t \in AllThreads :
         /\ (CycleEnds(t) /\ th'[t].ret = "raised")
              => (hw'.flag /\ \A q \in Pumps : ~IsRunning(hw', q))
         /\ (th[t].op \in CycleOps /\ th[t].pc = "cl_while" /\ th'[t].pc = "cl_phase")
              => hw'.flag = hw.flag]_vars

\* C38: a start_cleaning that started a cycle ends by returning, with
\* is_running false unless another call has started a cycle of its own
\* since; when something was raised during the cycle its handler
\* sets the emergency-stop flag and stops the pumps, and the call returns
\* False with the history as it was.
C38_FailedCycleCleansUp ==
    [][\A t \in AllThreads :
         /\ CycleEnds(t) =>
              /\ th'[t].ret \in {"True", "False"}
              /\ mk'.is_running =>
                   \E u \in AllThreads \ {t} :
                      th[u].op \in CycleOps /\ th[u].pc \in CyclePcs \cup {"cl_except"}
              /\ (th[t].pc = "es_stop") =>
                   /\ th'[t].ret = "False"
                   /\ mk'.history = mk.history
                   /\ \A q \in Pumps : ~IsRunning(hw', q)
         /\ (th[t].op \in CycleOps /\ th[t].pc = "es_flag" /\ th'[t].pc # "es_flag")
              => hw'.flag]_vars

(***************************************************************************)
(* Claims checked under SpecCleaning (continued).                          *)
(***************************************************************************)
\* C39: a cleaning cycle during which no stop was requested is recorded as
\* successful, and returns True, only if a start_pump of the cycle
\* succeeded; with the emergency-stop flag set during the whole cycle none
\* does.
C39_SuccessMeansPumpsDriven ==
    [][\A t \in AllThreads :
         /\ (th[t].op \in CycleOps /\ th[t].stop = "no"
               /\ th[t].pc = "cl_final" /\ th'[t].pc = "cl_reset"
               /\ Len(mk'.history) > Len(mk.history))
              => th[t].drove
         /\ (th[t].op \in CycleOps /\ th[t].stop = "no"
               /\ th[t].pc = "cl_reset" /\ th'[t].pc = "idle" /\ th'[t].ret = "True")
              => th[t].drove]_vars
(***************************************************************************)
(* Claims checked under SpecCounter                                        *)
(***************************************************************************)

C34_OnePumpAtATime ==
    program = "maker" => Cardinality({p \in Pumps : IsRunning(hw, p)}) <= 1

\* a cleaning cycle that has driven the solution pump and pulsed the first
\* pump is in the pulse of the second pump, which runs
C34_Witness ==
    /\ program = "maker"
    /\ th[PrepareThread].op = "start_cleaning"
    /\ th[PrepareThread].pc = "cl_sleep" /\ th[PrepareThread].at = "pulse"
    /\ th[PrepareThread].p = 2
    /\ mk.current_phase \in {"clean", "sanitize"}
    /\ IsRunning(hw, 2)
    /\ Cardinality({p \in Pumps : IsRunning(hw, p)}) = 1

====
